---- MODULE Spec2Model ----
(***************************************************************************)
(* Coordination core of limmat: the resource pool (src/src/resource.rs)    *)
(* and the job manager with its workers (src/src/test.rs).                 *)
(*                                                                         *)
(* The two subsystems do not share state in the source (the workers of     *)
(* test.rs own their worktree and never touch Pools), so each has its own  *)
(* specification: PoolSpec / PoolFairSpec and MgrSpec / MgrFairSpec.       *)
(* Dag (src/src/dag.rs) is a value type: Dag::new, with_node and the two   *)
(* iterators are applied under DagSpec. The result database               *)
(* (src/src/result.rs) and its output sinks run under DbSpec.              *)
(***************************************************************************)
EXTENDS Integers, Sequences, FiniteSets, TLC

\* ------------------------------------------------------------------ bounds
\* Number of tasks that call Pools::get concurrently.
NumTasks == 2
\* Number of worker tasks of the Manager.
NumWorkers == 2
\* Largest number of nodes handed to Dag::new.
MaxNodes == 3

\* Tokens the pool of test_pools_get_some is constructed with.
FooTokens == 3
BarTokens == 2

VARIABLES
    \* ---- Pools (resource.rs)
    resources,      \* Pools.resources: key -> sequence of tokens (the HashMap)
    pc,             \* per task: "idle", "parked" (in cond.wait), "woken", "holding",
                    \* "panicked"
    wants,          \* per task: the wants of its current get
    lease,          \* per task: Resources.resources of the lease it holds
    blocked,        \* per task: its current get has parked at least once
    added,          \* every (key, token) entry passed to add, in order
    removed,        \* every token try_remove_worktrees has returned, in order
    \* ---- Manager, Job, Worker (test.rs)
    job_cts,        \* Manager.job_cts: revision -> cancellation token
    ct_cancelled,   \* the set of cancellation tokens that are cancelled
    late_cancel,    \* the tokens cancelled when their subprocess had exited
    chan,           \* the unbounded job channel (chan_tx / chan_rx)
    shutdown_taken, \* worker_shutdown (SelectAll) has already completed once
    mgr,            \* position of the set_revisions call and its locals
    wpc,            \* per worker: position in Worker::start / Job::run
    wjob,           \* per worker: the job it is running
    wcancelled,     \* per worker: local `cancelled` of Job::run
    wfused,         \* per worker: cancel_fut (fused) has completed
    child,          \* per worker: the subprocess of the current job
    orphans,        \* per worker: subprocesses left alive in its worktree by
                    \* earlier jobs
    sigints,        \* per token: number of SIGINTs sent to the job's subprocess
    spawned,        \* tokens of the jobs whose subprocess was spawned
    outcome,        \* per token: what Job::run returned
    \* ---- Dag (dag.rs)
    dag_nodes,      \* the nodes handed to Dag::new
    dag_result,     \* what Dag::new returned
    dag,            \* the Dag value the caller holds (or the Err of with_node)
    iter,           \* the BottomUp / TopDown iterator over dag, or the None
                    \* of top_down_from
    yielded,        \* the node indices the iterator has yielded, in order
    \* ---- Database, TestCaseOutput (result.rs)
    disk,           \* per result path: the directory and its three files
    sink,           \* per TestCaseOutput: its base_dir (as key) and flags
    db_call,        \* the last call on the Database or a sink and its outcome
    set_done,       \* per key: the result of the last set_result that
                    \* returned Ok
    \* ---- Config, ParsedConfig (config.rs)
    config,         \* the Config handed to ParsedConfig::from
    parsed,         \* what ParsedConfig::from returned
    got             \* the outcome of a test's get(needs_resources) on the
                    \* primed, idle pools

poolVars == <<resources, pc, wants, lease, blocked, added, removed>>
mgrVars == <<job_cts, ct_cancelled, late_cancel, chan, shutdown_taken, mgr,
             wpc, wjob, wcancelled, wfused, child, orphans, sigints, spawned,
             outcome>>
dagVars == <<dag_nodes, dag_result, dag, iter, yielded>>
dbVars == <<disk, sink, db_call, set_done>>
cfgVars == <<config, parsed, got>>
vars == <<poolVars, mgrVars, dagVars, dbVars, cfgVars>>

\* ================================================================== Pools

Tasks == 1..NumTasks

\* ResourceKey::UserToken(name) for "foo" and "bar"; "worktree" is
\* ResourceKey::Worktree, which Pools::new is not given: the worktrees are
\* created later and handed to add.
InitKeys == {"foo", "bar"}
AddKeys == {"foo", "worktree"}
AllKeys == InitKeys \cup AddKeys

\* Resource::UserToken(value): the i-th token of a key.
Token(k, i) == <<k, i>>

EmptyMap == [k \in {} |-> <<>>]

\* The pool of test_pools_get_some.
InitialResources ==
    [k \in InitKeys |->
        IF k = "foo" THEN [i \in 1..FooTokens |-> Token(k, i)]
                     ELSE [i \in 1..BarTokens |-> Token(k, i)]]

\* avail_tokens.get(key).unwrap_or(&vec![])
AvailOf(avail, key) == IF key \in DOMAIN avail THEN avail[key] ELSE <<>>

\* wants.iter().all(|(key, want)| avail.get(key).unwrap_or(&vec![]).len() >= *want)
CanTake(avail, w) ==
    \A i \in 1..Len(w) : Len(AvailOf(avail, w[i][1])) >= w[i][2]

\* A mutant of DrainRest: the tokens handed out stay in the vector.
DrainRestKeep(v, n) == v

\* What avail.drain((avail.len() - want_count)..) leaves in the vector.
DrainRest(v, n) == SubSeq(v, 1, Len(v) - n)

\* What avail.drain((avail.len() - want_count)..) yields.
DrainTaken(v, n) == SubSeq(v, Len(v) - n + 1, Len(v))

\* The pool after the map over wants has drained entries 1..i.
RECURSIVE TakeAvail(_, _, _)
TakeAvail(avail, w, i) ==
    IF i = 0 THEN avail
    ELSE LET prev == TakeAvail(avail, w, i - 1)
             key == w[i][1]
         IN  [prev EXCEPT ![key] = DrainRest(prev[key], w[i][2])]

\* The HashMap collected from the map over wants: key -> drained tokens.
TakeLease(avail, w) ==
    [key \in {w[i][1] : i \in 1..Len(w)} |->
        LET i == CHOOSE j \in 1..Len(w) : w[j][1] = key
        IN  DrainTaken(TakeAvail(avail, w, i - 1)[key], w[i][2])]

\* A mutant of PutBack: the returned tokens replace the vector.
PutBackReplace(avail, held) ==
    [k \in DOMAIN avail |-> IF k \in DOMAIN held THEN held[k] ELSE avail[k]]

\* A mutant of PutBack: the returned tokens are appended twice.
PutBackTwice(avail, held) ==
    [k \in DOMAIN avail |->
        IF k \in DOMAIN held THEN avail[k] \o held[k] \o held[k] ELSE avail[k]]

\* A mutant of PutBack: the returned tokens go to the front of the vector.
PutBackFront(avail, held) ==
    [k \in DOMAIN avail |->
        IF k \in DOMAIN held THEN held[k] \o avail[k] ELSE avail[k]]

\* The loop of Pools::put: append the lease's tokens to their key's vector.
PutBack(avail, held) ==
    [k \in DOMAIN avail |->
        IF k \in DOMAIN held THEN avail[k] \o held[k] ELSE avail[k]]

\* A mutant of NotifyAll: the notification is dropped.
NotifyNone(p) == p

\* self.cond.notify_all(): every task parked in cond.wait is woken.
NotifyAll(p) == [t \in DOMAIN p |-> IF p[t] = "parked" THEN "woken" ELSE p[t]]

\* The wants a caller may pass: mappings over keys of the pool, as
\* sequences of (key, count) pairs with distinct keys. The first is the
\* wants of test_pools_one_empty_blocks, the others are those of
\* test_pools_get_some.
WantsChoices ==
    { << <<"foo", 1>>, <<"bar", 0>> >>,
      << <<"foo", 2>>, <<"bar", 2>> >>,
      << <<"foo", 3>> >> }

\* The first entry of wants whose key is not a key of the map.
FirstUnknown(avail, w) ==
    CHOOSE i \in 1..Len(w) :
        /\ w[i][1] \notin DOMAIN avail
        /\ \A j \in 1..(i - 1) : w[j][1] \in DOMAIN avail

PoolInit ==
    /\ resources = InitialResources
    /\ pc = [t \in Tasks |-> "idle"]
    /\ wants = [t \in Tasks |-> <<>>]
    /\ lease = [t \in Tasks |-> EmptyMap]
    /\ blocked = [t \in Tasks |-> FALSE]
    /\ added = <<>>
    /\ removed = <<>>

\* The body of the loop of Pools::get, run with the mutex held: take the
\* tokens and return the lease, or park in cond.wait (which releases the
\* mutex while enqueueing the waiter).
GetLoop(t, w) ==
    IF CanTake(resources, w)
    THEN IF \A i \in 1..Len(w) : w[i][1] \in DOMAIN resources
         THEN /\ resources' = TakeAvail(resources, w, Len(w))
              /\ lease' = [lease EXCEPT ![t] = TakeLease(resources, w)]
              /\ pc' = [pc EXCEPT ![t] = "holding"]
              /\ UNCHANGED blocked
         ELSE \* expect("invalid resource key") panics at the first entry
              \* whose key the map lacks; what the entries before it
              \* drained is dropped with the half-built map.
              /\ resources' =
                    TakeAvail(resources, w, FirstUnknown(resources, w) - 1)
              /\ pc' = [pc EXCEPT ![t] = "panicked"]
              /\ UNCHANGED <<lease, blocked>>
    ELSE /\ pc' = [pc EXCEPT ![t] = "parked"]
         /\ blocked' = [blocked EXCEPT ![t] = TRUE]
         /\ UNCHANGED <<resources, lease>>

\* Pools::get with wants drawn from choices, from the call to the first
\* return, park or panic.
GetWith(t, choices) ==
    /\ pc[t] = "idle"
    /\ \E w \in choices :
        /\ wants' = [wants EXCEPT ![t] = w]
        /\ GetLoop(t, w)
    /\ UNCHANGED <<added, removed, mgrVars, dagVars, dbVars, cfgVars>>

\* Pools::get with wants over keys of the pool.
Get(t) == GetWith(t, WantsChoices)

\* Pools::get after a notification: cond.wait returns the guard and the
\* loop runs again.
Recheck(t) ==
    /\ pc[t] = "woken"
    /\ GetLoop(t, wants[t])
    /\ UNCHANGED <<wants, added, removed, mgrVars, dagVars, dbVars, cfgVars>>

\* Drop for Resources: Pools::put of the lease, then notify_all.
DropLease(t) ==
    /\ pc[t] = "holding"
    /\ IF DOMAIN lease[t] \subseteq DOMAIN resources
       THEN /\ resources' = PutBack(resources, lease[t])
            /\ pc' = NotifyAll([pc EXCEPT ![t] = "idle"])
       ELSE \* expect("invalid resource key") panics at a key the map
            \* lacks, after the keys the HashMap iterator yielded before
            \* it were put back; notify_all is not reached.
            /\ \E done \in SUBSET (DOMAIN lease[t] \cap DOMAIN resources) :
                  resources' =
                      PutBack(resources, [k \in done |-> lease[t][k]])
            /\ pc' = [pc EXCEPT ![t] = "panicked"]
    /\ lease' = [lease EXCEPT ![t] = EmptyMap]
    /\ wants' = [wants EXCEPT ![t] = <<>>]
    /\ blocked' = [blocked EXCEPT ![t] = FALSE]
    /\ UNCHANGED <<added, removed, mgrVars, dagVars, dbVars, cfgVars>>

\* The pool after entry(key).or_default().push(resource).
Pushed(avail, key, tok) ==
    [k \in DOMAIN avail \cup {key} |->
        IF k = key THEN Append(AvailOf(avail, k), tok) ELSE avail[k]]

\* The (key, resource) entries callers hand to add: one more foo token and
\* a token of the new key. A Resource is moved into the pool, so each
\* entry is added once.
AddEntries ==
    {<<k, Token(k, Len(AvailOf(InitialResources, k)) + 1)>> : k \in AddKeys}

\* Pools::add with one new entry, then notify_all.
Add ==
    /\ \E e \in AddEntries :
        /\ \A i \in 1..Len(added) : added[i] # e
        /\ resources' = Pushed(resources, e[1], e[2])
        /\ added' = Append(added, e)
    /\ pc' = NotifyAll(pc)
    /\ UNCHANGED <<wants, lease, blocked, removed, mgrVars,
                   dagVars, dbVars, cfgVars>>

PoolNext ==
    \/ \E t \in Tasks : Get(t)
    \/ \E t \in Tasks : Recheck(t)
    \/ \E t \in Tasks : DropLease(t)
    \/ Add

\* Wants that name ResourceKey::Worktree (a test that requires a worktree)
\* or a key no pool has.
WideWants ==
    { << <<"foo", 1>>, <<"worktree", 1>> >>,
      << <<"nokey", 0>> >>,
      << <<"nokey", 1>> >>,
      << <<"foo", 1>>, <<"nokey", 0>> >> }

\* Pools::get with any wants.
GetAny(t) == GetWith(t, WantsChoices \cup WideWants)

\* A mutant of TryRemoveWorktrees: every entry is taken out of the map.
TryRemoveEverything ==
    /\ removed' = removed \o AvailOf(resources, "worktree")
    /\ resources' = EmptyMap
    /\ UNCHANGED <<pc, wants, lease, blocked, added, mgrVars,
                   dagVars, dbVars, cfgVars>>

\* Pools::try_remove_worktrees: avail.remove(&ResourceKey::Worktree) takes
\* the entry, key included, out of the map; nobody is notified.
TryRemoveWorktrees ==
    /\ removed' = removed \o AvailOf(resources, "worktree")
    /\ resources' = [k \in DOMAIN resources \ {"worktree"} |-> resources[k]]
    /\ UNCHANGED <<pc, wants, lease, blocked, added, mgrVars,
                   dagVars, dbVars, cfgVars>>

PoolWideNext ==
    \/ \E t \in Tasks : GetAny(t)
    \/ \E t \in Tasks : Recheck(t)
    \/ \E t \in Tasks : DropLease(t)
    \/ Add
    \/ TryRemoveWorktrees

\* ============================================= Manager, Job and Worker

Workers == 1..NumWorkers

\* CommitHash values handed to set_revisions: hash1 and hash2 of
\* should_cancel_running.
Revs == {"hash1", "hash2"}

\* What the subprocess does: it ends on its own ("finite", the script with
\* Terminate::Immediately), it blocks until it is interrupted ("onsigint",
\* Terminate::OnSigint), or it ignores SIGINT and never ends ("stubborn").
Running == {"finite", "onsigint", "stubborn"}

\* CancellationToken::new(): the token created after n others.
NewCt(cts) == Cardinality(DOMAIN cts) + 1

\* The tokens of the jobs waiting in the channel.
Queued == {chan[i].ct : i \in 1..Len(chan)}

\* Job::run is in progress on worker w.
InRun(w) == wpc[w] \in {"checkout", "spawn", "wait"}

\* The tokens of the jobs that were sent and whose Job::run has not returned.
InFlight == Queued \cup {wjob[w].ct : w \in {v \in Workers : InRun(v)}}

\* The subprocess of the job with token ct was spawned and has exited.
Exited(ct) ==
    /\ ct \in spawned
    /\ \A w \in Workers : wjob[w].ct = ct => child[w] \notin Running

\* The revision a token was created for.
RevOf(ct) == CHOOSE r \in DOMAIN job_cts : job_cts[r] = ct

NoJob == [rev |-> "none", ct |-> 0]

\* The manager between two set_revisions calls; ret is what the last call
\* returned.
Idle(ret) ==
    [pc |-> "idle", ret |-> ret, revs |-> {}, to_start |-> {},
     cancel_revs |-> {}, sent |-> {}, pre_cancelled |-> {},
     pre_inflight |-> {}]

MgrInit ==
    /\ job_cts = EmptyMap
    /\ ct_cancelled = {}
    /\ late_cancel = {}
    /\ chan = <<>>
    /\ shutdown_taken = FALSE
    /\ mgr = Idle("none")
    /\ wpc = [w \in Workers |-> "init"]
    /\ wjob = [w \in Workers |-> NoJob]
    /\ wcancelled = [w \in Workers |-> FALSE]
    /\ wfused = [w \in Workers |-> FALSE]
    /\ child = [w \in Workers |-> "none"]
    /\ orphans = [w \in Workers |-> 0]
    /\ sigints = EmptyMap
    /\ spawned = {}
    /\ outcome = EmptyMap

\* The Vec<CommitHash> arguments of set_revisions: every list of at most
\* as many entries as there are revisions, the lists that repeat a
\* revision included.
RevVecs == UNION {[1..n -> Revs] : n \in 0..Cardinality(Revs)}

\* HashSet::from_iter(revs.iter()): the revisions of the list, each once.
FromIter(v) == {v[i] : i \in 1..Len(v)}

\* A mutant of ToStart: the revisions that are keys of job_cts stay in
\* to_start.
ToStartAll(cts, revs) == revs

\* to_start after the loop over job_cts.keys(): the revisions of revs
\* (a HashSet built from the Vec) that are not keys of job_cts.
ToStart(cts, revs) == revs \ DOMAIN cts

\* A mutant of CancelRevs: every key of job_cts is cancelled.
CancelRevsAll(cts, revs) == DOMAIN cts

\* cancel_revs after the loop over job_cts.keys(): the keys not in revs.
CancelRevs(cts, revs) == DOMAIN cts \ revs

\* A mutant of MaySend: the two loops are interleaved.
MaySendEarly(m) == TRUE

\* The loop over to_start starts when the loop over cancel_revs is done.
MaySend(m) == m.cancel_revs = {}

\* Manager::set_revisions, up to the first cancellation: the locals.
SetRevisions(revs) ==
    /\ mgr.pc = "idle"
    /\ mgr.ret # "panic"
    /\ mgr' = [pc |-> "running", ret |-> "none", revs |-> revs,
               to_start |-> ToStart(job_cts, revs),
               cancel_revs |-> CancelRevs(job_cts, revs),
               sent |-> {}, pre_cancelled |-> ct_cancelled,
               pre_inflight |-> InFlight]
    /\ UNCHANGED <<job_cts, ct_cancelled, chan, shutdown_taken, wpc, wjob,
                   wcancelled, wfused, child, orphans, sigints, spawned,
                   outcome, late_cancel, poolVars, dagVars, dbVars, cfgVars>>

\* One iteration of `for rev in cancel_revs`: self.job_cts[rev].cancel().
CancelRev(rev) ==
    /\ mgr.pc = "running"
    /\ rev \in mgr.cancel_revs
    /\ ct_cancelled' = ct_cancelled \cup {job_cts[rev]}
    /\ late_cancel' = IF job_cts[rev] \notin ct_cancelled /\ Exited(job_cts[rev])
                      THEN late_cancel \cup {job_cts[rev]}
                      ELSE late_cancel
    /\ mgr' = [mgr EXCEPT !.cancel_revs = @ \ {rev}]
    /\ UNCHANGED <<job_cts, chan, shutdown_taken, wpc, wjob, wcancelled,
                   wfused, child, orphans, sigints, spawned, outcome,
                   poolVars, dagVars, dbVars, cfgVars>>

\* The token and the map entry one iteration of `for rev in to_start` makes.
InsertCt(rev) ==
    /\ job_cts' = [r \in DOMAIN job_cts \cup {rev} |->
                      IF r = rev THEN NewCt(job_cts) ELSE job_cts[r]]
    /\ sigints' = (NewCt(job_cts) :> 0) @@ sigints
    /\ outcome' = (NewCt(job_cts) :> "pending") @@ outcome

\* One iteration of `for rev in to_start` in which select! takes the
\* chan_tx.send branch. The channel is unbounded, so the send is ready at
\* once; it fails, and expect panics, when every receiver is gone.
SendJob(rev) ==
    /\ mgr.pc = "running"
    /\ MaySend(mgr)
    /\ rev \in mgr.to_start
    /\ InsertCt(rev)
    /\ IF \E w \in Workers : wpc[w] # "dead"
       THEN /\ chan' = Append(chan, [rev |-> rev, ct |-> NewCt(job_cts)])
            /\ mgr' = [mgr EXCEPT !.to_start = @ \ {rev},
                                  !.sent = @ \cup {rev}]
       ELSE /\ mgr' = Idle("panic")
            /\ UNCHANGED chan
    /\ UNCHANGED <<ct_cancelled, shutdown_taken, wpc, wjob, wcancelled,
                   wfused, child, orphans, spawned, late_cancel, poolVars,
                   dagVars, dbVars, cfgVars>>

\* One iteration of `for rev in to_start` in which select! takes the
\* worker_shutdown branch: a worker's JoinHandle is ready, SelectAll yields
\* it once and is empty afterwards, and the call returns the error.
SendBail(rev) ==
    /\ mgr.pc = "running"
    /\ MaySend(mgr)
    /\ rev \in mgr.to_start
    /\ ~shutdown_taken
    /\ \E w \in Workers : wpc[w] = "dead"
    /\ InsertCt(rev)
    /\ shutdown_taken' = TRUE
    /\ mgr' = Idle("err")
    /\ UNCHANGED <<ct_cancelled, chan, wpc, wjob, wcancelled, wfused, child,
                   orphans, spawned, late_cancel, poolVars,
                   dagVars, dbVars, cfgVars>>

\* Both loops are done: Ok(()).
Return ==
    /\ mgr.pc = "running"
    /\ MaySend(mgr)
    /\ mgr.to_start = {}
    /\ mgr' = Idle("ok")
    /\ UNCHANGED <<job_cts, ct_cancelled, chan, shutdown_taken, wpc, wjob,
                   wcancelled, wfused, child, orphans, sigints, spawned,
                   outcome, late_cancel, poolVars, dagVars, dbVars, cfgVars>>

\* Worker::start: TempWorktree::create_from succeeds, or fails and the
\* task ends with the error.
WorkerInit(w) ==
    /\ wpc[w] = "init"
    /\ \E ok \in BOOLEAN : wpc' = [wpc EXCEPT ![w] = IF ok THEN "recv" ELSE "dead"]
    /\ UNCHANGED <<job_cts, ct_cancelled, chan, shutdown_taken, mgr, wjob,
                   wcancelled, wfused, child, orphans, sigints, spawned,
                   outcome, late_cancel, poolVars, dagVars, dbVars, cfgVars>>

\* rx.next().await yields a job.
Recv(w) ==
    /\ wpc[w] = "recv"
    /\ chan # <<>>
    /\ wjob' = [wjob EXCEPT ![w] = Head(chan)]
    /\ chan' = Tail(chan)
    /\ wpc' = [wpc EXCEPT ![w] = "checkout"]
    /\ UNCHANGED <<job_cts, ct_cancelled, shutdown_taken, mgr, wcancelled,
                   wfused, child, orphans, sigints, spawned, outcome,
                   late_cancel, poolVars, dagVars, dbVars, cfgVars>>

\* A mutant of RunReturns: an Err from Job::run ends the worker task.
RunReturnsDies(w, r) ==
    /\ outcome' = [outcome EXCEPT ![wjob[w].ct] = r]
    /\ wpc' = [wpc EXCEPT ![w] = IF r = "err" THEN "dead" ELSE "recv"]
    /\ wjob' = [wjob EXCEPT ![w] = NoJob]
    /\ wcancelled' = [wcancelled EXCEPT ![w] = FALSE]
    /\ wfused' = [wfused EXCEPT ![w] = FALSE]

\* Job::run returns r; the worker logs it and takes the next job.
RunReturns(w, r) ==
    /\ outcome' = [outcome EXCEPT ![wjob[w].ct] = r]
    /\ wpc' = [wpc EXCEPT ![w] = "recv"]
    /\ wjob' = [wjob EXCEPT ![w] = NoJob]
    /\ wcancelled' = [wcancelled EXCEPT ![w] = FALSE]
    /\ wfused' = [wfused EXCEPT ![w] = FALSE]

\* Job::run: `git checkout <rev>` in the worktree, which may fail.
Checkout(w) ==
    /\ wpc[w] = "checkout"
    /\ \E ok \in BOOLEAN :
        IF ok THEN /\ wpc' = [wpc EXCEPT ![w] = "spawn"]
                   /\ UNCHANGED <<outcome, wjob, wcancelled, wfused>>
              ELSE RunReturns(w, "err")
    /\ UNCHANGED <<job_cts, ct_cancelled, chan, shutdown_taken, mgr, child,
                   orphans, sigints, spawned, late_cancel, poolVars,
                   dagVars, dbVars, cfgVars>>

\* Job::run: cmd.spawn(), which may fail; then the locals of the loop.
\* self.ct is not looked at before the loop.
Spawn(w) ==
    /\ wpc[w] = "spawn"
    /\ \/ /\ \E kind \in Running : child' = [child EXCEPT ![w] = kind]
          /\ spawned' = spawned \cup {wjob[w].ct}
          /\ wpc' = [wpc EXCEPT ![w] = "wait"]
          /\ wcancelled' = [wcancelled EXCEPT ![w] = FALSE]
          /\ wfused' = [wfused EXCEPT ![w] = FALSE]
          /\ UNCHANGED <<outcome, wjob>>
       \/ /\ RunReturns(w, "err")
          /\ UNCHANGED <<child, spawned>>
    /\ UNCHANGED <<job_cts, ct_cancelled, chan, shutdown_taken, mgr, orphans,
                   sigints, late_cancel, poolVars, dagVars, dbVars, cfgVars>>

\* A mutant of ChildExit: SIGINT ends no subprocess.
ChildExitOwn(w) ==
    /\ child[w] = "finite"
    /\ child' = [child EXCEPT ![w] = "exited"]
    /\ UNCHANGED <<job_cts, ct_cancelled, chan, shutdown_taken, mgr, wpc,
                   wjob, wcancelled, wfused, orphans, sigints, spawned,
                   outcome, late_cancel, poolVars, dagVars, dbVars, cfgVars>>

\* The subprocess ends: on its own, or interrupted by a SIGINT it heeds.
ChildExit(w) ==
    /\ \/ child[w] = "finite"
       \/ child[w] = "onsigint" /\ sigints[wjob[w].ct] > 0
    /\ child' = [child EXCEPT ![w] = "exited"]
    /\ UNCHANGED <<job_cts, ct_cancelled, chan, shutdown_taken, mgr, wpc,
                   wjob, wcancelled, wfused, orphans, sigints, spawned,
                   outcome, late_cancel, poolVars, dagVars, dbVars, cfgVars>>

\* select! takes the wait_fut branch: the subprocess has ended and its
\* output is read (or reading it failed).
WaitReady(w) ==
    /\ wpc[w] = "wait"
    /\ child[w] = "exited"
    /\ \E r \in {IF wcancelled[w] THEN "none" ELSE "some", "err"} :
        RunReturns(w, r)
    /\ child' = [child EXCEPT ![w] = "none"]
    /\ UNCHANGED <<job_cts, ct_cancelled, chan, shutdown_taken, mgr, orphans,
                   sigints, spawned, late_cancel, poolVars,
                   dagVars, dbVars, cfgVars>>

\* select! takes the cancel_fut branch and kill(pid, SIGINT) succeeds.
\* cancel_fut is fused: once it has completed the branch is disabled.
Interrupt(w) ==
    /\ wpc[w] = "wait"
    /\ ~wfused[w]
    /\ wjob[w].ct \in ct_cancelled
    /\ sigints' = [sigints EXCEPT ![wjob[w].ct] = @ + 1]
    /\ wcancelled' = [wcancelled EXCEPT ![w] = TRUE]
    /\ wfused' = [wfused EXCEPT ![w] = TRUE]
    /\ UNCHANGED <<job_cts, ct_cancelled, chan, shutdown_taken, mgr, wpc,
                   wjob, child, orphans, spawned, outcome, late_cancel,
                   poolVars, dagVars, dbVars, cfgVars>>

\* select! takes the cancel_fut branch and kill(pid, SIGINT) fails: `?`
\* returns the error at once and drops wait_fut; a subprocess that is
\* still running stays behind in the worktree.
InterruptFails(w) ==
    /\ wpc[w] = "wait"
    /\ ~wfused[w]
    /\ wjob[w].ct \in ct_cancelled
    /\ RunReturns(w, "err")
    /\ orphans' = [orphans EXCEPT ![w] = IF child[w] \in Running THEN @ + 1 ELSE @]
    /\ child' = [child EXCEPT ![w] = "none"]
    /\ UNCHANGED <<job_cts, ct_cancelled, chan, shutdown_taken, mgr, sigints,
                   spawned, late_cancel, poolVars, dagVars, dbVars, cfgVars>>

\* A subprocess left behind in the worktree ends.
OrphanExit(w) ==
    /\ orphans[w] > 0
    /\ orphans' = [orphans EXCEPT ![w] = @ - 1]
    /\ UNCHANGED <<job_cts, ct_cancelled, chan, shutdown_taken, mgr, wpc,
                   wjob, wcancelled, wfused, child, sigints, spawned, outcome,
                   late_cancel, poolVars, dagVars, dbVars, cfgVars>>

MgrNext ==
    \/ \E v \in RevVecs : SetRevisions(FromIter(v))
    \/ \E rev \in Revs : CancelRev(rev)
    \/ \E rev \in Revs : SendJob(rev)
    \/ \E rev \in Revs : SendBail(rev)
    \/ Return
    \/ \E w \in Workers : WorkerInit(w)
    \/ \E w \in Workers : Recv(w)
    \/ \E w \in Workers : Checkout(w)
    \/ \E w \in Workers : Spawn(w)
    \/ \E w \in Workers : ChildExit(w)
    \/ \E w \in Workers : WaitReady(w)
    \/ \E w \in Workers : Interrupt(w)
    \/ \E w \in Workers : InterruptFails(w)
    \/ \E w \in Workers : OrphanExit(w)

\* ==================================================================== Dag

\* Node ids (usize in the tests of dag.rs) and the ids a node may name as
\* a child; 3 is the id of no node.
DagIds == {0, 1, 2}
ChildIds == DagIds \cup {3}

\* child_ids() of a node: no child, one child (which may be the id of no
\* node), or two distinct nodes' ids. Node ids are assigned to positions
\* of the vector in every way, so the pairs come in one order of ids.
ChildChoices ==
    {<<>>} \cup {<<c>> : c \in ChildIds}
           \cup {p \in {<<c, d>> : c \in DagIds, d \in DagIds} : p[1] < p[2]}

\* A GraphNode: its id and its child ids.
DagNodes == [id : DagIds, children : ChildChoices]

\* The node vectors handed to Dag::new.
DagInputs == UNION {[1..n -> DagNodes] : n \in 0..MaxNodes}

\* No call of Dag::new has returned.
NoResult == [kind |-> "none"]

\* The first loop of Dag::new: the index of the first node whose id an
\* earlier node has (0 if there is none). Indices are 1-based here.
FirstDuplicate(nodes) ==
    LET dups == {j \in 1..Len(nodes) :
                    \E i \in 1..(j - 1) : nodes[i].id = nodes[j].id}
    IN  IF dups = {} THEN 0
        ELSE CHOOSE j \in dups : \A k \in dups : j <= k

\* id_to_idx after the first loop (no duplicate ids).
IdToIdx(nodes) ==
    [id \in {nodes[i].id : i \in 1..Len(nodes)} |->
        CHOOSE i \in 1..Len(nodes) : nodes[i].id = id]

\* The second loop of Dag::new: the first (node, child position), in
\* iteration order, whose child id is not in id_to_idx (<<0, 0>> if none).
FirstMissing(nodes) ==
    LET ids == {nodes[i].id : i \in 1..Len(nodes)}
        bad == {<<i, k>> \in (1..Len(nodes)) \X (1..2) :
                    /\ k <= Len(nodes[i].children)
                    /\ nodes[i].children[k] \notin ids}
    IN  IF bad = {} THEN <<0, 0>>
        ELSE CHOOSE b \in bad :
                \A c \in bad : b[1] < c[1] \/ (b[1] = c[1] /\ b[2] <= c[2])

\* edges after the second loop: per node the indices of its children.
EdgesOf(nodes) ==
    [i \in 1..Len(nodes) |->
        [k \in 1..Len(nodes[i].children) |->
            IdToIdx(nodes)[nodes[i].children[k]]]]

\* A mutant of Unwind: the node stays in visited_stack.
UnwindKeep(st, start) == st

\* visited_stack.remove(&start_idx) at the end of recurse.
Unwind(st, start) == [st EXCEPT !.stack = @ \ {start}]

\* fn recurse and its loop over edges[start_idx], on the record st of
\* visited, visited_stack (stack), root_idxs (roots) and the returned
\* Option (cyc, 0 for None).
RECURSIVE Recurse(_, _, _)
RECURSIVE RecurseChildren(_, _, _, _)
Recurse(st, start, edges) ==
    IF start \in st.stack THEN [st EXCEPT !.cyc = start]
    ELSE IF start \in st.visited THEN st
    ELSE LET entered == [st EXCEPT !.visited = @ \cup {start},
                                  !.stack = @ \cup {start}]
             after == RecurseChildren(entered, edges[start], 1, edges)
         IN  IF after.cyc # 0 THEN after ELSE Unwind(after, start)

RecurseChildren(st, children, k, edges) ==
    IF k > Len(children) THEN st
    ELSE LET noroot == [st EXCEPT !.roots = @ \ {children[k]}]
             after == Recurse(noroot, children[k], edges)
         IN  IF after.cyc # 0 THEN after
             ELSE RecurseChildren(after, children, k + 1, edges)

\* for i in 0..edges.len(): recurse from i, bailing at the first cycle.
RECURSIVE Validate(_, _, _)
Validate(st, i, edges) ==
    IF i > Len(edges) THEN st
    ELSE LET after == Recurse(st, i, edges)
         IN  IF after.cyc # 0 THEN after ELSE Validate(after, i + 1, edges)

\* Dag::new(nodes): the error, or the Dag's roots and edges.
New(nodes) ==
    IF FirstDuplicate(nodes) # 0
    THEN [kind |-> "DuplicateId", id |-> nodes[FirstDuplicate(nodes)].id]
    ELSE IF FirstMissing(nodes) # <<0, 0>>
    THEN LET b == FirstMissing(nodes)
         IN  [kind |-> "NoSuchChild", parent |-> nodes[b[1]].id,
              child |-> nodes[b[1]].children[b[2]]]
    ELSE LET edges == EdgesOf(nodes)
             st == Validate([visited |-> {}, stack |-> {},
                             roots |-> 1..Len(nodes), cyc |-> 0], 1, edges)
         IN  IF st.cyc # 0
             THEN [kind |-> "Cycle", id |-> nodes[st.cyc].id]
             ELSE [kind |-> "Ok", roots |-> st.roots, edges |-> edges]

\* No Dag value is held, and no iterator.
NoDag == [kind |-> "none"]
NoIter == [kind |-> "none"]

\* The Dag that Dag::new returns in Ok: nodes, id_to_idx, edges, root_idxs.
DagOf(nodes, r) ==
    [kind |-> "Ok", nodes |-> nodes, id_to_idx |-> IdToIdx(nodes),
     edges |-> r.edges, root_idxs |-> r.roots]

\* No Dag is being built.
DagIdle ==
    /\ dag_nodes = <<>>
    /\ dag_result = NoResult
    /\ dag = NoDag
    /\ iter = NoIter
    /\ yielded = <<>>

\* Some node vector is about to be handed to Dag::new.
DagInit ==
    /\ dag_nodes \in DagInputs
    /\ dag_result = NoResult
    /\ dag = NoDag
    /\ iter = NoIter
    /\ yielded = <<>>

\* The call Dag::new(dag_nodes) returns; on Ok the caller holds the Dag.
DagNew ==
    /\ dag_result = NoResult
    /\ dag = NoDag
    /\ dag_result' = New(dag_nodes)
    /\ dag' = IF New(dag_nodes).kind = "Ok"
              THEN DagOf(dag_nodes, New(dag_nodes))
              ELSE NoDag
    /\ UNCHANGED <<dag_nodes, iter, yielded, poolVars,
                   mgrVars, dbVars, cfgVars>>

\* Dag::empty(): a Dag of no nodes.
EmptyDag ==
    [kind |-> "Ok", nodes |-> <<>>, id_to_idx |-> <<>>, edges |-> <<>>,
     root_idxs |-> {}]

\* The caller starts from Dag::empty() instead of Dag::new.
DagEmpty ==
    /\ dag = NoDag
    /\ dag_result = NoResult
    /\ dag_nodes = <<>>
    /\ dag' = EmptyDag
    /\ UNCHANGED <<dag_nodes, dag_result, iter, yielded, poolVars,
                   mgrVars, dbVars, cfgVars>>

\* with_node's id_to_idx.insert(node.id(), new_idx): an entry of the same
\* id is overwritten.
InsertId(id_to_idx, id, new_idx) ==
    [i \in DOMAIN id_to_idx \cup {id} |->
        IF i = id THEN new_idx ELSE id_to_idx[i]]

\* self.with_node(node): Err(NoSuchChild) at the first child id that is
\* not in id_to_idx (self is consumed), else the Dag with the node appended.
WithNodeOf(d, node) ==
    LET new_idx == Len(d.nodes) + 1
        ids == InsertId(d.id_to_idx, node.id, new_idx)
        bad == {k \in 1..Len(node.children) :
                    node.children[k] \notin DOMAIN ids}
        kids == [k \in 1..Len(node.children) |-> ids[node.children[k]]]
    IN  IF bad # {}
        THEN [kind |-> "NoSuchChild", parent |-> node.id,
              child |-> node.children[CHOOSE k \in bad :
                                          \A j \in bad : k <= j]]
        ELSE [kind |-> "Ok",
              nodes |-> Append(d.nodes, node),
              id_to_idx |-> ids,
              edges |-> Append(d.edges, kids),
              root_idxs |-> (d.root_idxs \ {kids[k] : k \in DOMAIN kids})
                               \cup {new_idx}]

\* The caller replaces its Dag by dag.with_node(node).
WithNode(node) ==
    /\ dag.kind = "Ok"
    /\ iter = NoIter
    /\ Len(dag.nodes) < MaxNodes
    /\ dag' = WithNodeOf(dag, node)
    /\ UNCHANGED <<dag_nodes, dag_result, iter, yielded, poolVars,
                   mgrVars, dbVars, cfgVars>>

\* Vec::pop: the last element and the rest.
PopFront(s) == [item |-> s[1], rest |-> Tail(s)]

Pop(s) == [item |-> s[Len(s)], rest |-> SubSeq(s, 1, Len(s) - 1)]

\* The orders in which iterating a HashSet may give its elements.
Orders(S) ==
    {s \in [1..Cardinality(S) -> S] :
        \A i, j \in 1..Cardinality(S) : s[i] = s[j] => i = j}

\* The children of index i, as a set.
Kids(edges, i) == {edges[i][k] : k \in DOMAIN edges[i]}

\* The indices reachable from the set S along edges, S included.
RECURSIVE ReachFrom(_, _)
ReachFrom(edges, S) ==
    LET T == S \cup UNION {Kids(edges, i) : i \in S}
    IN  IF T = S THEN S ELSE ReachFrom(edges, T)

\* Some index reachable from i lies on a cycle of edges.
ReachesCycle(edges, i) ==
    \E n \in ReachFrom(edges, {i}) : n \in ReachFrom(edges, Kids(edges, n))

\* Largest number of nodes one traversal of an acyclic Dag of MaxNodes
\* nodes can yield (a node is yielded once per path that leads to it).
MaxYield == 2 ^ MaxNodes


\* A mutant of PushChildren: only the first child is pushed.
PushFirstChild(stack, edges, cur_idx) ==
    IF edges[cur_idx] = <<>> THEN stack
    ELSE Append(stack, edges[cur_idx][1])

\* A mutant of PushChildren: the children are pushed last to first.
PushChildrenReversed(stack, edges, cur_idx) ==
    stack \o [k \in 1..Len(edges[cur_idx]) |->
                 edges[cur_idx][Len(edges[cur_idx]) + 1 - k]]

\* for child_idx in &self.dag.edges[cur_idx] { stack.push(*child_idx) }
PushChildren(stack, edges, cur_idx) == stack \o edges[cur_idx]

\* The first phase of BottomUp::next: the while loop that empties
\* temp_stack into visit_stack. It ends only if no cycle is reachable.
RECURSIVE Fill(_, _, _)
Fill(temp_stack, visit_stack, edges) ==
    IF temp_stack = <<>> THEN visit_stack
    ELSE LET p == Pop(temp_stack)
         IN  Fill(PushChildren(p.rest, edges, p.item),
                  Append(visit_stack, p.item), edges)

\* dag.bottom_up(): the roots are collected from the HashSet in some order.
BottomUp ==
    /\ dag.kind = "Ok"
    /\ iter = NoIter
    /\ \E roots \in Orders(dag.root_idxs) :
          iter' = [kind |-> "bottom_up", visit_stack |-> <<>>,
                   unvisited_roots |-> roots, done |-> FALSE]
    /\ UNCHANGED <<dag_nodes, dag_result, dag, yielded, poolVars,
                   mgrVars, dbVars, cfgVars>>

\* BottomUp::next(). With visit_stack empty it pops a root (None, if there
\* is none) and fills visit_stack; on a Dag with a reachable cycle the
\* loop never ends ("hung"). Then it yields the top of visit_stack.
BottomUpNext ==
    /\ iter.kind = "bottom_up"
    /\ ~iter.done
    /\ IF iter.visit_stack # <<>>
       THEN LET v == Pop(iter.visit_stack)
            IN  /\ iter' = [iter EXCEPT !.visit_stack = v.rest]
                /\ yielded' = Append(yielded, v.item)
       ELSE IF iter.unvisited_roots = <<>>
       THEN /\ iter' = [iter EXCEPT !.done = TRUE]
            /\ UNCHANGED yielded
       ELSE LET r == Pop(iter.unvisited_roots)
            IN  IF ReachesCycle(dag.edges, r.item)
                THEN /\ iter' = [iter EXCEPT !.kind = "hung",
                                             !.unvisited_roots = r.rest]
                     /\ UNCHANGED yielded
                ELSE LET v == Pop(Fill(<<r.item>>, <<>>, dag.edges))
                     IN  /\ iter' = [iter EXCEPT !.unvisited_roots = r.rest,
                                                 !.visit_stack = v.rest]
                         /\ yielded' = Append(yielded, v.item)
    /\ UNCHANGED <<dag_nodes, dag_result, dag, poolVars,
                   mgrVars, dbVars, cfgVars>>

\* dag.top_down_from(id): None if id is not in id_to_idx.
TopDownFrom(id) ==
    /\ dag.kind = "Ok"
    /\ iter = NoIter
    /\ iter' = IF id \in DOMAIN dag.id_to_idx
               THEN [kind |-> "top_down", from |-> id, visit_stack |-> <<>>,
                     unvisited_roots |-> <<dag.id_to_idx[id]>>,
                     done |-> FALSE]
               ELSE [kind |-> "None", from |-> id]
    /\ UNCHANGED <<dag_nodes, dag_result, dag, yielded, poolVars,
                   mgrVars, dbVars, cfgVars>>

\* TopDown::next(): None when both stacks are empty, else the top of
\* visit_stack is yielded and its children are pushed in its place.
TopDownNext ==
    /\ iter.kind = "top_down"
    /\ ~iter.done
    /\ Len(yielded) < MaxYield
    /\ IF iter.visit_stack = <<>> /\ iter.unvisited_roots = <<>>
       THEN /\ iter' = [iter EXCEPT !.done = TRUE]
            /\ UNCHANGED yielded
       ELSE LET r == Pop(iter.unvisited_roots)
                stack == IF iter.visit_stack = <<>>
                         THEN <<r.item>> ELSE iter.visit_stack
                roots == IF iter.visit_stack = <<>>
                         THEN r.rest ELSE iter.unvisited_roots
                v == Pop(stack)
            IN  /\ iter' = [iter EXCEPT
                              !.unvisited_roots = roots,
                              !.visit_stack =
                                  PushChildren(v.rest, dag.edges, v.item)]
                /\ yielded' = Append(yielded, v.item)
    /\ UNCHANGED <<dag_nodes, dag_result, dag, poolVars,
                   mgrVars, dbVars, cfgVars>>

DagNext ==
    \/ DagNew
    \/ DagEmpty
    \/ \E node \in DagNodes : WithNode(node)
    \/ BottomUp
    \/ BottomUpNext
    \/ \E id \in ChildIds : TopDownFrom(id)
    \/ TopDownNext

\* ======================================================== result database

\* The (rev-key, test-name) pairs: each has its own result_path under
\* base_dir. The TestResult values, and the sinks the callers create.
DbKeys == {"k1", "k2"}
Results == {"pass", "fail"}
Sinks == {"s1", "s2"}

\* serde_json::to_vec(result) and serde_json::from_str of a file's content
\* (an error for a content that is no document).
ToJson(x) == <<"json", x>>
FromJson(content) ==
    IF content \in {ToJson(x) : x \in Results} THEN content[2] ELSE "error"

\* A result_path at which nothing exists.
NoFiles ==
    [dir |-> FALSE, stdout |-> "absent", stderr |-> "absent",
     result |-> "absent"]

\* A sink that has not been created.
NoSink == [state |-> "none"]

\* Database::create_or_open on an empty base_dir; no sink exists.
DbInit ==
    /\ disk = [k \in DbKeys |-> NoFiles]
    /\ sink = [s \in Sinks |-> NoSink]
    /\ db_call = [op |-> "none"]
    /\ set_done = [k \in DbKeys |-> "none"]

\* A mutant of CachedResult: the directory is taken for the result.
CachedByDir(d, k) ==
    IF ~d[k].dir THEN <<"None">>
    ELSE IF FromJson(d[k].result) = "error" THEN <<"Err">>
    ELSE <<"Some", FromJson(d[k].result)>>

\* Database::cached_result: None if result.json does not exist, else the
\* parsed content (or the parse error).
CachedResult(d, k) ==
    IF d[k].result = "absent" THEN <<"None">>
    ELSE IF FromJson(d[k].result) = "error" THEN <<"Err">>
    ELSE <<"Some", FromJson(d[k].result)>>

\* A caller asks cached_result for k.
CachedResultCall(k) ==
    /\ db_call' = [op |-> "cached_result", key |-> k,
                   out |-> CachedResult(disk, k)]
    /\ UNCHANGED <<disk, sink, set_done, poolVars, mgrVars, dagVars, cfgVars>>

\* A mutant of NewDisk: the directory is made when the sink is created.
NewDiskEager(d, k) == [d EXCEPT ![k].dir = TRUE]

\* The filesystem after TestCaseOutput::new(result_path): unchanged.
NewDisk(d, k) == d

\* Database::create_output(k): a sink with no flag set.
CreateOutput(s, k) ==
    /\ sink[s].state = "none"
    /\ sink' = [sink EXCEPT ![s] =
                  [state |-> "live", key |-> k, stdout_opened |-> FALSE,
                   stderr_opened |-> FALSE, status_written |-> FALSE]]
    /\ disk' = NewDisk(disk, k)
    /\ db_call' = [op |-> "create_output", sink |-> s, key |-> k,
                   out |-> "ok"]
    /\ UNCHANGED <<set_done, poolVars, mgrVars, dagVars, cfgVars>>

\* The flag that guards each write operation of a sink.
FlagOf(f) ==
    CASE f = "stdout" -> "stdout_opened"
      [] f = "stderr" -> "stderr_opened"
      [] f = "result" -> "status_written"

\* get_base_dir()? followed by File::create or fs::write of file f with
\* the content: create_dir_all fails ("err_dir"), or the directory exists
\* and the file operation fails ("err_file") or succeeds ("ok").
WriteFile(d, k, f, content, out) ==
    IF out = "err_dir" THEN d
    ELSE [d EXCEPT ![k].dir = TRUE,
                   ![k][f] = IF out = "ok" THEN content ELSE @]

\* A mutant of AlreadyDone: the assertion is missing.
NeverDone(s, f) == FALSE

\* The assertion of stdout / stderr / set_result fails.
AlreadyDone(s, f) == sink[s][FlagOf(f)]

\* One of the three write operations of sink s on its file f: a panic if
\* its flag is set, else the flag is set and the file written, unless
\* the filesystem fails.
SinkWrite(s, f, content) ==
    /\ sink[s].state = "live"
    /\ IF AlreadyDone(s, f)
       THEN /\ sink' = [sink EXCEPT ![s].state = "panicked"]
            /\ db_call' = [op |-> f, sink |-> s, key |-> sink[s].key,
                           out |-> "panic"]
            /\ UNCHANGED <<disk, set_done>>
       ELSE \E out \in {"ok", "err_dir", "err_file"} :
            /\ sink' = [sink EXCEPT ![s][FlagOf(f)] = TRUE]
            /\ disk' = WriteFile(disk, sink[s].key, f, content, out)
            /\ db_call' = [op |-> f, sink |-> s, key |-> sink[s].key,
                           out |-> out]
            /\ set_done' = IF f = "result" /\ out = "ok"
                           THEN [set_done EXCEPT ![sink[s].key] =
                                    FromJson(content)]
                           ELSE set_done
    /\ UNCHANGED <<poolVars, mgrVars, dagVars, cfgVars>>

\* sink.stdout(), sink.stderr(): File::create leaves an empty file.
Stdout(s) == SinkWrite(s, "stdout", "empty")
Stderr(s) == SinkWrite(s, "stderr", "empty")

\* sink.set_result(&x).
SetResult(s, x) == SinkWrite(s, "result", ToJson(x))

DbNext ==
    \/ \E k \in DbKeys : CachedResultCall(k)
    \/ \E s \in Sinks, k \in DbKeys : CreateOutput(s, k)
    \/ \E s \in Sinks : Stdout(s)
    \/ \E s \in Sinks : Stderr(s)
    \/ \E s \in Sinks, x \in Results : SetResult(s, x)

\* set_result as fs::write runs it, first half: the assertion passes, the
\* directory is made and File::create makes result.json or truncates it;
\* nothing is written yet.
SetResultCreate(s, x) ==
    /\ sink[s].state = "live"
    /\ ~AlreadyDone(s, "result")
    /\ sink' = [sink EXCEPT ![s] =
                  [state |-> "writing", key |-> sink[s].key,
                   stdout_opened |-> sink[s].stdout_opened,
                   stderr_opened |-> sink[s].stderr_opened,
                   status_written |-> TRUE, pending |-> ToJson(x)]]
    /\ disk' = WriteFile(disk, sink[s].key, "result", "empty", "ok")
    /\ db_call' = [op |-> "result", sink |-> s, key |-> sink[s].key,
                   out |-> "writing"]
    /\ UNCHANGED <<set_done, poolVars, mgrVars, dagVars, cfgVars>>

\* set_result as fs::write runs it, second half: write_all puts the
\* serialized result into the file and the call returns.
SetResultWriteAll(s) ==
    /\ sink[s].state = "writing"
    /\ sink' = [sink EXCEPT ![s] =
                  [state |-> "live", key |-> sink[s].key,
                   stdout_opened |-> sink[s].stdout_opened,
                   stderr_opened |-> sink[s].stderr_opened,
                   status_written |-> TRUE]]
    /\ disk' = WriteFile(disk, sink[s].key, "result", sink[s].pending, "ok")
    /\ db_call' = [op |-> "result", sink |-> s, key |-> sink[s].key,
                   out |-> "ok"]
    /\ set_done' = [set_done EXCEPT ![sink[s].key] = FromJson(sink[s].pending)]
    /\ UNCHANGED <<poolVars, mgrVars, dagVars, cfgVars>>

\* The database with set_result's two filesystem steps apart, so that the
\* calls of other tasks fall between them.
DbRaceNext ==
    \/ DbNext
    \/ \E s \in Sinks, x \in Results : SetResultCreate(s, x)
    \/ \E s \in Sinks : SetResultWriteAll(s)

\* ================================================================= Config

\* The names of the tests of a Config, in the order of Config.tests.
TestNames == <<"t1", "t2", "t3">>
NameSet == {TestNames[i] : i \in DOMAIN TestNames}

\* config::Resource: Bare(name), Counted{name, count}, Explicit{name, tokens}.
Bare(n) == [kind |-> "Bare", name |-> n]
Counted(n, c) == [kind |-> "Counted", name |-> n, count |-> c]
Explicit(n, toks) == [kind |-> "Explicit", name |-> n, tokens |-> toks]

\* Resource::count.
Count(r) ==
    CASE r.kind = "Bare" -> 1
      [] r.kind = "Counted" -> r.count
      [] r.kind = "Explicit" -> Len(r.tokens)

\* Config.resources (None is the empty list): nothing, one token of foo,
\* two of foo and two explicit ones of bar, foo declared twice.
DeclaredChoices ==
    { <<>>,
      <<Bare("foo")>>,
      <<Counted("foo", 2), Explicit("bar", <<"x", "y">>)>>,
      <<Counted("foo", 2), Bare("foo")>> }

\* Test.resources (None is the empty list): nothing, one or two or no
\* token of foo, foo and bar, foo twice, a name nobody declares.
NeededChoices ==
    { <<>>,
      <<Bare("foo")>>,
      <<Counted("foo", 2)>>,
      <<Counted("foo", 0)>>,
      <<Bare("foo"), Counted("bar", 1)>>,
      <<Bare("foo"), Counted("foo", 2)>>,
      <<Bare("baz")>> }

\* Test.depends_on: no name, one name, or two distinct names in either
\* order; a test may name itself.
DependsChoices ==
    {<<>>} \cup {<<a>> : a \in NameSet}
           \cup {p \in {<<a, b>> : a \in NameSet, b \in NameSet} : p[1] # p[2]}

\* config::Test with its serde defaults: requires_worktree true, no
\* resources. shutdown_grace_period_s and cache keep their defaults.
DefaultTest(n, cmd, deps) ==
    [name |-> n, command |-> cmd, requires_worktree |-> TRUE,
     resources |-> <<>>, depends_on |-> deps]

\* The Configs handed to ParsedConfig::from: three tests with any
\* depends_on, of which the first has any requires_worktree and resources
\* and the last either command, over any declared resources.
Configs ==
    {[resources |-> decl,
      tests |-> [i \in DOMAIN TestNames |->
                   IF i = 1
                   THEN [DefaultTest(TestNames[i], "c1", deps[i]) EXCEPT
                            !.requires_worktree = wt, !.resources = need]
                   ELSE DefaultTest(TestNames[i],
                                    IF i = Len(TestNames) THEN cmd ELSE "c1",
                                    deps[i])]] :
        decl \in DeclaredChoices, need \in NeededChoices, wt \in BOOLEAN,
        cmd \in {"c1", "c2"}, deps \in [DOMAIN TestNames -> DependsChoices]}

\* impl GraphNode for config::Test: id is the name, child_ids is depends_on.
ConfNode(t) == [id |-> t.name, children |-> t.depends_on]

\* impl GraphNode for test::Test: id is the name, child_ids is depends_on.
TestNode(test) == [id |-> test.name, children |-> test.depends_on, test |-> test]

\* A mutant of DuplicateReference: the first loop is missing.
NoDuplicateReference(t) == FALSE

\* The first loop of Test::parse: some resource name occurs twice.
DuplicateReference(t) ==
    \E i, j \in 1..Len(t.resources) :
        i < j /\ t.resources[i].name = t.resources[j].name

\* needs_resources of Test::parse: the (name, count) pairs collected into
\* a HashMap, then Worktree -> 1 if requires_worktree. The names are
\* distinct when this is reached.
NeedsResources(t) ==
    LET user == [n \in {t.resources[i].name : i \in 1..Len(t.resources)} |->
                    Count(t.resources[CHOOSE i \in 1..Len(t.resources) :
                                          t.resources[i].name = n])]
    IN  IF t.requires_worktree THEN ("worktree" :> 1) @@ user ELSE user

\* Dag::node(id): the node at id_to_idx[id].
Node(d, id) == d.nodes[d.id_to_idx[id]]

\* A mutant of ConfigHash: the dependencies' hashes are left out.
OwnHash(t, other_tests) == <<t, <<>>>>

\* config_hash of Test::parse, with a hash that has no collisions: what is
\* fed to the hasher, i.e. the fields of the test and then the config_hash
\* of each dependency in depends_on order.
ConfigHash(t, other_tests) ==
    <<t, [k \in 1..Len(t.depends_on) |->
             Node(other_tests, t.depends_on[k]).test.config_hash]>>

\* Test::parse(other_tests): the error of a duplicate reference, the panic
\* of unwrap on a dependency that other_tests lacks, or the test::Test.
Parse(t, other_tests) ==
    IF DuplicateReference(t)
    THEN [kind |-> "Err", why |-> "duplicate resource reference"]
    ELSE IF \E k \in 1..Len(t.depends_on) :
                t.depends_on[k] \notin DOMAIN other_tests.id_to_idx
    THEN [kind |-> "panic"]
    ELSE [kind |-> "Ok",
          test |-> [name |-> t.name,
                    needs_resources |-> NeedsResources(t),
                    config_hash |-> ConfigHash(t, other_tests),
                    depends_on |-> t.depends_on]]

\* Config::parse_resource_tokens: per declared name its tokens, collected
\* into a HashMap (a later entry of the same name replaces an earlier one).
ParseResourceTokens(c) ==
    [n \in {c.resources[i].name : i \in 1..Len(c.resources)} |->
        LET r == c.resources[CHOOSE i \in 1..Len(c.resources) :
                     /\ c.resources[i].name = n
                     /\ \A j \in (i + 1)..Len(c.resources) :
                           c.resources[j].name # n]
        IN  IF r.kind = "Explicit" THEN r.tokens
            ELSE [i \in 1..Count(r) |-> Token(n, i - 1)]]

\* What dag.bottom_up() yields up to its None, for the order in which the
\* roots were collected: per root, popped from the end, the filled
\* visit_stack from its end.
RECURSIVE BottomUpAll(_, _)
BottomUpAll(edges, roots) ==
    IF roots = <<>> THEN <<>>
    ELSE LET r == Pop(roots)
             stack == Fill(<<r.item>>, <<>>, edges)
         IN  [k \in 1..Len(stack) |-> stack[Len(stack) + 1 - k]]
                \o BottomUpAll(edges, r.rest)

\* try_fold over the yielded declarations: parse each against the Dag
\* accumulated so far and add it with with_node(..).unwrap(); the first
\* error ends the fold.
RECURSIVE TryFold(_, _, _)
TryFold(parsed_dag, test_confs, k) ==
    IF k > Len(test_confs) THEN parsed_dag
    ELSE LET new_node == Parse(test_confs[k], parsed_dag)
         IN  IF new_node.kind # "Ok" THEN new_node
             ELSE LET next == WithNodeOf(parsed_dag, TestNode(new_node.test))
                  IN  IF next.kind # "Ok" THEN [kind |-> "panic"]
                      ELSE TryFold(next, test_confs, k + 1)

\* The check for invalid resource references at the end of parse_tests:
\* some test needs a UserToken name that has no declared tokens entry.
UndefinedResource(tests, resource_tokens) ==
    \E i \in 1..Len(tests.nodes) :
        \E key \in DOMAIN tests.nodes[i].test.needs_resources :
            key # "worktree" /\ key \notin DOMAIN resource_tokens

\* Config::parse_tests, for the order in which bottom_up collects the roots.
ParseTests(c, resource_tokens, roots) ==
    LET r == New([i \in DOMAIN c.tests |-> ConfNode(c.tests[i])])
    IN  IF r.kind # "Ok"
        THEN [kind |-> "Err", why |-> "parsing test dependency graph"]
        ELSE LET order == BottomUpAll(r.edges, roots)
                 tests == TryFold(EmptyDag,
                                  [k \in 1..Len(order) |-> c.tests[order[k]]],
                                  1)
             IN  IF tests.kind # "Ok" THEN tests
                 ELSE IF UndefinedResource(tests, resource_tokens)
                 THEN [kind |-> "Err", why |-> "undefined resource"]
                 ELSE tests

\* ParsedConfig::from: the error of parse_tests, or the pools made of the
\* declared tokens and the resolved tests.
From(c, roots) ==
    LET resource_tokens == ParseResourceTokens(c)
        tests == ParseTests(c, resource_tokens, roots)
    IN  IF tests.kind # "Ok" THEN tests
        ELSE [kind |-> "Ok", resource_pools |-> resource_tokens,
              tests |-> tests]

\* The orders in which bottom_up may collect the roots of the Dag of c's
\* declarations (one empty order if Dag::new refuses them).
RootOrders(c) ==
    LET r == New([i \in DOMAIN c.tests |-> ConfNode(c.tests[i])])
    IN  IF r.kind = "Ok" THEN Orders(r.roots) ELSE {<<>>}

NoConfig == [kind |-> "none"]

\* No Config is being parsed.
CfgIdle ==
    /\ config = NoConfig
    /\ parsed = [kind |-> "none"]
    /\ got = [kind |-> "none"]

\* Some Config is about to be handed to ParsedConfig::from.
CfgInit ==
    /\ config \in Configs
    /\ parsed = [kind |-> "none"]
    /\ got = [kind |-> "none"]

\* The call ParsedConfig::from(config) returns.
ParsedConfigFrom ==
    /\ config # NoConfig
    /\ parsed.kind = "none"
    /\ \E roots \in RootOrders(config) : parsed' = From(config, roots)
    /\ UNCHANGED <<config, got, poolVars, mgrVars, dagVars, dbVars>>

\* The pools once the caller has created a worktree and added it.
Primed(resource_pools) ==
    Pushed(resource_pools, "worktree", Token("worktree", 1))

\* The wants a HashMap of needs gives, in some iteration order.
WantsOf(needs) ==
    {[k \in 1..Cardinality(DOMAIN needs) |-> <<o[k], needs[o[k]]>>] :
        o \in Orders(DOMAIN needs)}

\* pools.get(test.needs_resources) of a resolved test on the primed pools
\* with every token available: it returns, or panics at an unknown key, or
\* parks; nobody holds a token, so a parked get stays parked.
GetNeeds(i) ==
    /\ parsed.kind = "Ok"
    /\ got.kind = "none"
    /\ i \in 1..Len(parsed.tests.nodes)
    /\ \E w \in WantsOf(parsed.tests.nodes[i].test.needs_resources) :
          got' = [kind |-> IF ~CanTake(Primed(parsed.resource_pools), w)
                           THEN "parked"
                           ELSE IF \A k \in 1..Len(w) :
                                     w[k][1] \in DOMAIN Primed(parsed.resource_pools)
                           THEN "returned" ELSE "panicked",
                  test |-> i]
    /\ UNCHANGED <<config, parsed, poolVars, mgrVars, dagVars, dbVars>>

CfgNext ==
    \/ ParsedConfigFrom
    \/ \E i \in 1..(2 ^ Len(TestNames)) : GetNeeds(i)

\* ========================================================= specifications

\* The state after Pools::new and Manager::new.
Init == PoolInit /\ MgrInit /\ DagIdle /\ DbInit /\ CfgIdle

\* The state in which Dag::new is called on some node vector.
DagStart == PoolInit /\ MgrInit /\ DagInit /\ DbInit /\ CfgIdle

\* The state in which ParsedConfig::from is called on some Config.
CfgStart == PoolInit /\ MgrInit /\ DagIdle /\ DbInit /\ CfgInit

\* The pool alone: the manager does not move.
PoolSpec == Init /\ [][PoolNext]_vars

\* The pool with every operation and any wants.
PoolWideSpec == Init /\ [][PoolWideNext]_vars

\* Dag::new applied to every node vector of up to MaxNodes nodes (or
\* Dag::empty), then with_node up to MaxNodes nodes and one traversal.
DagSpec == DagStart /\ [][DagNext]_vars

\* The result database with its sinks, called in any order.
DbSpec == Init /\ [][DbNext]_vars

\* result.rs with a reader between the two steps of fs::write.
DbRaceSpec == Init /\ [][DbRaceNext]_vars

\* config.rs: ParsedConfig::from on every Config of Configs, then one
\* get of a resolved test's needs.
CfgSpec == CfgStart /\ [][CfgNext]_vars

\* The pool under fair scheduling: a woken waiter is polled again and a
\* lease is dropped in the end. Nothing orders a woken waiter before a
\* task that calls get anew.
PoolFairSpec ==
    /\ PoolSpec
    /\ \A t \in Tasks : WF_vars(Recheck(t)) /\ WF_vars(DropLease(t))

\* The manager and its workers alone: the pool does not move.
MgrSpec == Init /\ [][MgrNext]_vars

\* The manager under fair scheduling: a started set_revisions call runs
\* on, every worker task is polled when it can make progress, and a
\* subprocess that can end does end.
MgrFairSpec ==
    /\ MgrSpec
    /\ \A rev \in Revs : WF_vars(CancelRev(rev)) /\ WF_vars(SendJob(rev))
    /\ WF_vars(Return)
    /\ \A w \in Workers :
        /\ WF_vars(WorkerInit(w))
        /\ WF_vars(Recv(w))
        /\ WF_vars(Checkout(w))
        /\ WF_vars(Spawn(w))
        /\ WF_vars(ChildExit(w))
        /\ WF_vars(WaitReady(w))
        /\ WF_vars(Interrupt(w) \/ InterruptFails(w))

\* ================================================================= claims

\* Number of occurrences of x in the sequence v.
CountIn(v, x) == Cardinality({i \in 1..Len(v) : v[i] = x})

\* Number of occurrences of x in the vectors of the map m, over keys ks.
RECURSIVE CountInMap(_, _, _)
CountInMap(m, ks, x) ==
    IF ks = {} THEN 0
    ELSE LET k == CHOOSE y \in ks : TRUE
         IN  CountIn(m[k], x) + CountInMap(m, ks \ {k}, x)

\* Number of occurrences of x in the leases of the tasks ts.
RECURSIVE CountInLeases(_, _)
CountInLeases(ts, x) ==
    IF ts = {} THEN 0
    ELSE LET t == CHOOSE y \in ts : TRUE
         IN  CountInMap(lease[t], DOMAIN lease[t], x)
                + CountInLeases(ts \ {t}, x)

\* Every token that can exist in a behaviour.
AllTokens == {Token(k, i) : k \in AllKeys, i \in 1..(FooTokens + BarTokens)}

\* C1: at every point outside the critical sections, the multiset of the
\* tokens in the availability map plus the tokens held by the outstanding
\* leases equals the multiset the pool was constructed with plus every
\* token passed to add.
C1_Conservation ==
    \A x \in AllTokens :
        CountInMap(resources, DOMAIN resources, x) + CountInLeases(Tasks, x)
            = CountInMap(InitialResources, InitKeys, x)
                + Cardinality({i \in 1..Len(added) : added[i][2] = x})

\* C1 witness: a lease taken by a get that had parked is outstanding, a
\* token has been added, and an earlier lease has been dropped (the foo
\* token it returned is behind the added one).
C1_Witness ==
    /\ \E t \in Tasks : pc[t] = "holding" /\ blocked[t]
    /\ \E t \in Tasks : pc[t] = "idle"
    /\ Len(added) > 0
    /\ resources["foo"] = <<Token("foo", 4), Token("foo", 3)>>

\* C2: a get returns a lease only from a state where every (key, count) of
\* its wants has count tokens available, and in that step it removes
\* exactly the last count tokens of each such key and touches no other
\* key; a get that parks has removed nothing, and a parked or woken get
\* holds nothing.
C2_AllOrNothing ==
    [][\A t \in Tasks :
        /\ (pc[t] # "holding" /\ pc'[t] = "holding") =>
              /\ \A i \in 1..Len(wants'[t]) :
                    LET k == wants'[t][i][1]
                        c == wants'[t][i][2]
                    IN  /\ Len(resources[k]) >= c
                        /\ Len(resources'[k]) = Len(resources[k]) - c
                        /\ resources[k] = resources'[k] \o lease'[t][k]
              /\ \A k \in DOMAIN resources :
                    (\A i \in 1..Len(wants'[t]) : wants'[t][i][1] # k)
                        => resources'[k] = resources[k]
        /\ (pc[t] # "parked" /\ pc'[t] = "parked") =>
              resources' = resources /\ lease' = lease
        /\ pc'[t] \in {"parked", "woken"} => lease'[t] = EmptyMap
      ]_vars

\* C2 witness: a get for foo:3 is parked while another lease holds 2 of
\* the 3 foo tokens.
C2_Witness ==
    \E t, u \in Tasks :
        /\ pc[t] = "holding" /\ wants[t] = << <<"foo", 2>>, <<"bar", 2>> >>
        /\ Len(lease[t]["foo"]) = 2
        /\ pc[u] = "parked" /\ wants[u] = << <<"foo", 3>> >>
        /\ Len(resources["foo"]) = 1

\* The get of task t is blocked and the pool can satisfy its wants.
BlockedSatisfiable(t) ==
    pc[t] \in {"parked", "woken"} /\ CanTake(resources, wants[t])

\* C3 (as claimed): whenever the wants of a blocked get are satisfiable,
\* a get that had parked returns later on.
C3_Original ==
    (\E t \in Tasks : BlockedSatisfiable(t))
        ~> (\E u \in Tasks : pc[u] = "holding" /\ blocked[u])

\* C3 (amended): a blocked get does not stay blocked while its wants stay
\* satisfiable: it returns, or another get (a blocked one or a new one)
\* returns with tokens it needs.
C3_NoLostWakeup ==
    \A t \in Tasks : BlockedSatisfiable(t) ~> ~BlockedSatisfiable(t)

\* C3 witness: the get for foo:3 that had parked holds its lease.
C3_Witness ==
    \E t \in Tasks :
        /\ pc[t] = "holding" /\ blocked[t]
        /\ wants[t] = << <<"foo", 3>> >>
        /\ Len(lease[t]["foo"]) = 3

\* This step is a return of set_revisions (Ok or the worker's error).
Returns == mgr.pc = "running" /\ mgr'.pc = "idle" /\ mgr'.ret \in {"ok", "err"}

\* C4: when set_revisions(revs) returns, the token of every job that was in
\* flight before the call and whose revision is not in revs is cancelled,
\* and the call has cancelled no token of a revision that is in revs.
C4_CancelsDropped ==
    [][Returns =>
        /\ \A ct \in mgr.pre_inflight :
              RevOf(ct) \notin mgr.revs => ct \in ct_cancelled'
        /\ \A ct \in ct_cancelled' \ mgr.pre_cancelled :
              RevOf(ct) \notin mgr.revs
      ]_vars

\* C4 witness: a call about to return has cancelled an in-flight job whose
\* revision it dropped and has left alone an in-flight job whose revision
\* it kept.
C4_Witness ==
    /\ mgr.pc = "running" /\ mgr.cancel_revs = {} /\ mgr.to_start = {}
    /\ \E ct \in mgr.pre_inflight \cap InFlight :
          RevOf(ct) \notin mgr.revs /\ ct \in ct_cancelled \ mgr.pre_cancelled
    /\ \E ct \in mgr.pre_inflight \cap InFlight :
          RevOf(ct) \in mgr.revs /\ ct \notin ct_cancelled

\* Revision r has a result (or its job ended in an error), or a job with
\* an un-cancelled token is in flight for it.
Settled(r) ==
    /\ r \in DOMAIN job_cts
    /\ \/ outcome[job_cts[r]] \in {"some", "err"}
       \/ job_cts[r] \in InFlight /\ job_cts[r] \notin ct_cancelled

\* C5 (as claimed): when set_revisions(revs) returns Ok and every worker is
\* alive, every revision in revs has a result or an un-cancelled job in
\* flight.
C5_Original ==
    [][(mgr.pc = "running" /\ mgr'.pc = "idle" /\ mgr'.ret = "ok"
            /\ \A w \in Workers : wpc[w] # "dead") =>
        \A r \in mgr.revs : Settled(r)]_vars

\* C6: within one set_revisions call no token is cancelled once a job of
\* the call has been sent, and a job is sent only when every cancellation
\* of the call has been issued.
C6_CancelBeforeSend ==
    [][/\ ct_cancelled' # ct_cancelled => mgr.sent = {}
       /\ Len(chan') > Len(chan) => mgr.cancel_revs = {}
      ]_vars

\* C6 witness: a call has both cancelled a token and sent a job.
C6_Witness ==
    /\ mgr.pc = "running"
    /\ mgr.sent # {}
    /\ ct_cancelled \ mgr.pre_cancelled # {}

\* The subprocesses alive in the worktree of worker w.
Alive(w) == orphans[w] + (IF child[w] \in Running THEN 1 ELSE 0)

\* C7 (as claimed): at most one subprocess is alive per worker checkout,
\* and a worker is in the checkout or spawn of a job only when no
\* subprocess of an earlier job is alive in its worktree.
C7_Original ==
    \A w \in Workers :
        /\ Alive(w) <= 1
        /\ wpc[w] \in {"checkout", "spawn"} => Alive(w) = 0

\* C8 (as claimed): a job that was cancelled while running terminates and
\* its worker gets back to taking the next job, whatever the subprocess
\* does with SIGINT.
C8_Original ==
    \A w \in Workers : (wpc[w] = "wait" /\ wcancelled[w]) ~> (wpc[w] = "recv")

\* C9 (as claimed): no subprocess is spawned for a job whose token is
\* already cancelled.
C9_Original ==
    [][\A w \in Workers :
        (child[w] = "none" /\ child'[w] \in Running)
            => wjob[w].ct \notin ct_cancelled]_vars

\* C10 (as claimed): a job's subprocess is sent SIGINT at most once, and
\* cancelling the token of a job whose subprocess has already exited sends
\* no signal and does not change what the job returns.
C10_Original ==
    [][/\ \A ct \in DOMAIN sigints' : sigints'[ct] <= 1
       /\ \A ct \in late_cancel :
            /\ sigints'[ct] = sigints[ct]
            /\ outcome'[ct] # "none"
      ]_vars


\* C11 (as claimed): once a worker task has died no further job is sent on
\* the channel, even when the send is ready at the same time, in this
\* call or in a later one.
C11_Original ==
    [][(\E w \in Workers : wpc[w] = "dead") => Len(chan') <= Len(chan)]_vars

\* C12 (as claimed): a job whose token was cancelled before its subprocess
\* exited does not yield the subprocess output when Job::run returns.
C12_Original ==
    [][\A w \in Workers :
        (/\ wpc[w] = "wait" /\ wpc'[w] = "recv"
         /\ wjob[w].ct \in ct_cancelled \ late_cancel)
            => outcome'[wjob[w].ct] # "some"]_vars

\* C14: when the checkout or the spawn of a job fails, Job::run returns
\* the error for that job only: the worker is back at rx.next(), no other
\* worker and no queued job is affected, worker_shutdown stays as it was;
\* and a worker task ends only by failing to set up its worktree.
C14_JobFailureIsLocal ==
    [][\A w \in Workers :
        /\ (wpc[w] \in {"checkout", "spawn"} /\ outcome'[wjob[w].ct] = "err")
              => /\ wpc'[w] = "recv"
                 /\ \A v \in Workers \ {w} : wpc'[v] = wpc[v]
                 /\ chan' = chan
                 /\ shutdown_taken' = shutdown_taken
                 /\ mgr' = mgr
        /\ (wpc'[w] = "dead" /\ wpc[w] # "dead") => wpc[w] = "init"
      ]_vars

\* C14 witness: the only live worker is waiting for the subprocess of a
\* job after an earlier job failed before its subprocess existed.
C14_Witness ==
    \E w \in Workers :
        /\ wpc[w] = "wait"
        /\ \A v \in Workers \ {w} : wpc[v] = "dead"
        /\ \E ct \in DOMAIN outcome : outcome[ct] = "err" /\ ct \notin spawned


\* A worker task that has set up its worktree (it never ends afterwards).
LiveWorker == \E w \in Workers : wpc[w] \notin {"init", "dead"}

\* The job of revision r is waiting in the channel, un-cancelled.
Waiting(r) ==
    /\ r \in DOMAIN job_cts
    /\ job_cts[r] \in Queued
    /\ job_cts[r] \notin ct_cancelled

\* The job of revision r has had its subprocess started, or has left the
\* wanted set, or its checkout or spawn has failed.
Started(r) ==
    /\ r \in DOMAIN job_cts
    /\ \/ job_cts[r] \in spawned
       \/ job_cts[r] \in ct_cancelled
       \/ outcome[job_cts[r]] = "err"

\* Some subprocess ignores SIGINT.
Stubborn == \E w \in Workers : child[w] = "stubborn"

\* Worker w waits for a subprocess that will not exit as things stand: it
\* ignores SIGINT, or it exits only on a SIGINT that was not sent.
Occupied(w) ==
    /\ wpc[w] = "wait"
    /\ \/ child[w] = "stubborn"
       \/ child[w] = "onsigint" /\ sigints[wjob[w].ct] = 0

\* C13 (as claimed): with a live worker and no subprocess that ignores
\* SIGINT, every un-cancelled queued job eventually has its subprocess
\* started (or leaves the wanted set, or fails before the spawn).
C13_Original ==
    \A r \in Revs : (Waiting(r) /\ LiveWorker) ~> (Started(r) \/ Stubborn)

\* C13 (amended): unless some worker stays occupied for ever by a
\* subprocess that does not exit, every un-cancelled queued job eventually
\* has its subprocess started (or leaves the wanted set, or fails before
\* the spawn); and a cancelled job whose subprocess exits on SIGINT is
\* sent SIGINT (or the signalling fails) and its worker gets back to
\* rx.next().
C13_JobStarts ==
    /\ \A r \in Revs :
          \/ <>[](\E w \in Workers : Occupied(w))
          \/ (Waiting(r) /\ LiveWorker) ~> Started(r)
    /\ \A w \in Workers :
          (wpc[w] = "wait" /\ child[w] = "onsigint"
              /\ wjob[w].ct \in ct_cancelled)
            ~> (wpc[w] = "recv")

\* C13 witness: the job of hash1 was interrupted once and has returned
\* None, and the subprocess of the un-cancelled job of hash2 runs while
\* only one worker is alive.
C13_Witness ==
    /\ DOMAIN job_cts = Revs
    /\ sigints[job_cts["hash1"]] = 1
    /\ outcome[job_cts["hash1"]] = "none"
    /\ job_cts["hash2"] \in spawned \ ct_cancelled
    /\ \E w \in Workers :
          /\ wpc[w] = "wait" /\ wjob[w].rev = "hash2"
          /\ \A v \in Workers \ {w} : wpc[v] = "dead"


\* The maps a and b hold the same tokens under the same keys, in any order.
SameTokens(a, b) ==
    /\ DOMAIN a = DOMAIN b
    /\ \A k \in DOMAIN a :
          /\ Len(a[k]) = Len(b[k])
          /\ \A i \in 1..Len(a[k]) :
                CountIn(a[k], a[k][i]) = CountIn(b[k], a[k][i])

C16_Original ==
    [][\A t \in Tasks :
        (/\ pc[t] = "idle" /\ pc'[t] # "idle"
         /\ \E i \in 1..Len(wants'[t]) :
               wants'[t][i][1] \notin DOMAIN resources)
            => pc'[t] = "panicked"]_vars

\* C17 (as claimed): the keys of the availability map are the keys that
\* were passed to Pools::new.
C17_Original == DOMAIN resources = InitKeys

\* This step is a call of try_remove_worktrees that found something.
Removes ==
    \/ removed' # removed
    \/ "worktree" \in DOMAIN resources /\ "worktree" \notin DOMAIN resources'

\* C18: try_remove_worktrees returns exactly the tokens in the Worktree
\* vector at the time of the call, in one step; every other key keeps its
\* vector, every lease keeps its tokens and no task is parked, woken or
\* otherwise moved by it.
C18_RemoveWorktreesFrame ==
    [][Removes =>
        /\ removed' = removed \o AvailOf(resources, "worktree")
        /\ AvailOf(resources', "worktree") = <<>>
        /\ \A k \in DOMAIN resources \ {"worktree"} :
              k \in DOMAIN resources' /\ resources'[k] = resources[k]
        /\ lease' = lease
        /\ pc' = pc
      ]_vars

\* C18 witness: the worktree that was added has been removed while a
\* lease holds foo tokens and foo and bar keep their remaining tokens.
C18_Witness ==
    /\ removed = <<Token("worktree", 1)>>
    /\ "worktree" \notin DOMAIN resources
    /\ \E t \in Tasks : pc[t] = "holding" /\ Len(AvailOf(lease[t], "foo")) = 2
    /\ Len(resources["foo"]) = 1

\* C19: a get hands the lease, for each key of its wants, the last count
\* elements of the key's vector in their stored order and leaves the
\* elements before them in place; a drop appends the lease's tokens at
\* the end of their key's vector; so a get followed at once by the drop
\* restores every vector exactly.
C19_LastTokensInOrder ==
    [][\A t \in Tasks :
        /\ (pc[t] # "holding" /\ pc'[t] = "holding") =>
              /\ \A i \in 1..Len(wants'[t]) :
                    LET k == wants'[t][i][1]
                        c == wants'[t][i][2]
                        n == Len(resources[k])
                    IN  /\ lease'[t][k] = SubSeq(resources[k], n - c + 1, n)
                        /\ resources'[k] = SubSeq(resources[k], 1, n - c)
              /\ PutBack(resources', lease'[t]) = resources
        /\ (pc[t] = "holding" /\ pc'[t] = "idle") =>
              \A k \in DOMAIN lease[t] :
                  /\ Len(resources'[k]) = Len(resources[k]) + Len(lease[t][k])
                  /\ SubSeq(resources'[k], 1, Len(resources[k])) = resources[k]
                  /\ SubSeq(resources'[k], Len(resources[k]) + 1,
                            Len(resources'[k])) = lease[t][k]
      ]_vars

\* C19 witness: a lease holds the last two foo tokens in their stored
\* order and the first one is left in the pool.
C19_Witness ==
    \E t \in Tasks :
        /\ pc[t] = "holding"
        /\ AvailOf(lease[t], "foo") = <<Token("foo", 2), Token("foo", 3)>>
        /\ resources["foo"] = <<Token("foo", 1)>>


\* The ids of the nodes.
IdsOf(nodes) == {nodes[i].id : i \in 1..Len(nodes)}

\* Two nodes have the id a.
Shared(nodes, a) ==
    \E i, j \in 1..Len(nodes) : i # j /\ nodes[i].id = a /\ nodes[j].id = a

\* A node with id a names b as a child.
Edge(nodes, a, b) ==
    \E i \in 1..Len(nodes) :
        /\ nodes[i].id = a
        /\ \E k \in 1..Len(nodes[i].children) : nodes[i].children[k] = b

\* There is a path of 1 to n edges from a to b.
RECURSIVE Path(_, _, _, _)
Path(nodes, a, b, n) ==
    /\ n > 0
    /\ \/ Edge(nodes, a, b)
       \/ \E c \in IdsOf(nodes) :
             Edge(nodes, a, c) /\ Path(nodes, c, b, n - 1)

\* The node with id a lies on a directed cycle.
OnCycle(nodes, a) == Path(nodes, a, a, Len(nodes))

\* C20: Dag::new returns DuplicateId(i), with i shared by two nodes, if
\* two nodes share an id; otherwise NoSuchChild{parent, child}, with child
\* a child id of parent that is the id of no node, if there is such a
\* child id; otherwise Cycle(i), with i on a directed cycle, if there is
\* a cycle; and Ok when none of the three holds.
C20_NewClassifies ==
    dag_result.kind # "none" =>
        LET nodes == dag_nodes
            r == dag_result
            dup == \E a \in IdsOf(nodes) : Shared(nodes, a)
            missing == \E a \in IdsOf(nodes) :
                          \E b \in ChildIds \ IdsOf(nodes) : Edge(nodes, a, b)
            cyclic == \E a \in IdsOf(nodes) : OnCycle(nodes, a)
        IN  IF dup
            THEN r.kind = "DuplicateId" /\ Shared(nodes, r.id)
            ELSE IF missing
            THEN /\ r.kind = "NoSuchChild"
                 /\ r.child \notin IdsOf(nodes)
                 /\ Edge(nodes, r.parent, r.child)
            ELSE IF cyclic
            THEN r.kind = "Cycle" /\ OnCycle(nodes, r.id)
            ELSE r.kind = "Ok"

\* C20 witness: three nodes with distinct ids and known children, where
\* the first node leads into a cycle it is not on, and Dag::new returned
\* Cycle.
C20_Witness ==
    /\ Len(dag_nodes) = 3
    /\ dag_result.kind = "Cycle"
    /\ ~OnCycle(dag_nodes, dag_nodes[1].id)
    /\ Len(dag_nodes[1].children) = 2

\* The Dag held is the one Dag::new built from dag_nodes.
BuiltByNew == dag_result.kind = "Ok" /\ dag.kind = "Ok" /\ dag.nodes = dag_nodes

\* The number of times index i has been yielded.
Times(i) == Cardinality({p \in 1..Len(yielded) : yielded[p] = i})

\* A bottom_up() iteration has returned None.
BottomUpDone == iter.kind = "bottom_up" /\ iter.done

\* C21 (as stated): for every Dag built by Dag::new, shared children and
\* nodes under several roots included, bottom_up() yields each node
\* exactly once, so it yields Len(nodes) nodes.
C21_Original ==
    (BuiltByNew /\ BottomUpDone) =>
        /\ Len(yielded) = Len(dag.nodes)
        /\ \A i \in 1..Len(dag.nodes) : Times(i) = 1

\* Index c has been yielded before position p.
YieldedBefore(c, p) == \E q \in 1..(p - 1) : yielded[q] = c

\* C22: during bottom_up() every yielded node comes after all its
\* children (each child has been yielded earlier), and when the
\* iteration has returned None every node of the Dag has been yielded.
C22_ChildrenFirst ==
    (dag.kind = "Ok" /\ iter.kind = "bottom_up") =>
        /\ \A p \in 1..Len(yielded) :
              \A c \in Kids(dag.edges, yielded[p]) : YieldedBefore(c, p)
        /\ iter.done => \A i \in 1..Len(dag.nodes) : Times(i) >= 1

\* C22 witness: a finished bottom_up() over a Dag built by Dag::new of
\* three nodes, one of them with two children.
C22_Witness ==
    /\ BuiltByNew
    /\ BottomUpDone
    /\ Len(dag.nodes) = 3
    /\ \E i \in 1..3 : Len(dag.edges[i]) = 2

\* The invariants of a Dag: ids unique, every edge the index of the node
\* with the child id, no cycle, and root_idxs the nodes that are nobody's
\* child.
UniqueIds(d) ==
    \A i, j \in 1..Len(d.nodes) : d.nodes[i].id = d.nodes[j].id => i = j

EdgesResolve(d) ==
    /\ Len(d.edges) = Len(d.nodes)
    /\ \A i \in 1..Len(d.nodes) :
          /\ Len(d.edges[i]) = Len(d.nodes[i].children)
          /\ \A k \in 1..Len(d.edges[i]) :
                /\ d.edges[i][k] \in 1..Len(d.nodes)
                /\ d.nodes[d.edges[i][k]].id = d.nodes[i].children[k]

Acyclic(d) ==
    \A i \in 1..Len(d.edges) : i \notin ReachFrom(d.edges, Kids(d.edges, i))

RootsExact(d) ==
    d.root_idxs = {i \in 1..Len(d.edges) :
                      \A j \in 1..Len(d.edges) : i \notin Kids(d.edges, j)}

DagInvariants(d) ==
    UniqueIds(d) /\ EdgesResolve(d) /\ Acyclic(d) /\ RootsExact(d)

\* The set of indices yielded so far.
YieldedSet == {yielded[p] : p \in 1..Len(yielded)}

\* The number of nodes a stack walk yields from the given stack: one per
\* path that starts at an entry of the stack.
RECURSIVE ToYield(_, _)
ToYield(edges, stack) ==
    IF stack = <<>> THEN 0
    ELSE 1 + ToYield(edges, Tail(stack) \o edges[Head(stack)])

\* C23: on a Dag that satisfies its invariants, top_down_from(id) is None
\* iff no node has the id. Otherwise the iteration terminates: every call
\* of next() yields one node and lowers the number of nodes still to be
\* yielded by one, and the call at zero returns None. The set of nodes
\* yielded by then is the set of nodes reachable from the node with that
\* id, itself included.
C23_TopDownReachable ==
    /\ [](dag.kind = "Ok" /\ DagInvariants(dag) =>
            /\ iter.kind = "None" => iter.from \notin IdsOf(dag.nodes)
            /\ iter.kind = "top_down" =>
                  /\ iter.from \in IdsOf(dag.nodes)
                  /\ dag.nodes[dag.id_to_idx[iter.from]].id = iter.from
                  /\ Len(yielded)
                        + ToYield(dag.edges,
                                  iter.visit_stack \o iter.unvisited_roots)
                        < MaxYield
                  /\ iter.done =>
                        YieldedSet =
                            ReachFrom(dag.edges, {dag.id_to_idx[iter.from]}))
    /\ [][(/\ dag.kind = "Ok"
           /\ DagInvariants(dag)
           /\ iter.kind = "top_down"
           /\ iter' # iter) =>
              LET left == ToYield(dag.edges,
                                  iter.visit_stack \o iter.unvisited_roots)
                  left_after ==
                      ToYield(dag.edges,
                              iter'.visit_stack \o iter'.unvisited_roots)
              IN  IF left = 0
                  THEN iter'.done /\ yielded' = yielded
                  ELSE /\ ~iter'.done
                       /\ left_after = left - 1
                       /\ Len(yielded') = Len(yielded) + 1]_vars

\* C23 witness: a finished top_down_from over a Dag of three nodes, from
\* a node that is not a root and reaches one other node.
C23_Witness ==
    /\ dag.kind = "Ok"
    /\ DagInvariants(dag)
    /\ Len(dag.nodes) = 3
    /\ iter.kind = "top_down"
    /\ iter.done
    /\ Cardinality(YieldedSet) = 2
    /\ dag.id_to_idx[iter.from] \notin dag.root_idxs

\* A top_down_from iteration over the Dag that Dag::new built.
TopDownOverNew == BuiltByNew /\ iter.kind = "top_down"

\* The position at which index i is first yielded (0 if it is not).
FirstAt(i) ==
    IF i \in YieldedSet
    THEN CHOOSE p \in 1..Len(yielded) :
            yielded[p] = i /\ ~YieldedBefore(i, p)
    ELSE 0

\* C24 (as stated): in top_down_from(id) every yielded node comes only
\* after every one of its parents that is reachable from id, also where
\* a node has two reachable parents.
C24_Original ==
    TopDownOverNew =>
        \A p \in 1..Len(yielded) :
            \A n \in ReachFrom(dag.edges, {dag.id_to_idx[iter.from]}) :
                yielded[p] \in Kids(dag.edges, n) => YieldedBefore(n, p)

\* C25 (as stated): both traversals visit a node's edges in the order of
\* child_ids: for a node with child_ids [c1, c2], a finished bottom_up()
\* and a finished top_down_from each yield c1 before c2.
C25_Original ==
    (BuiltByNew /\ iter.kind \in {"bottom_up", "top_down"} /\ iter.done) =>
        \A n \in YieldedSet :
            Len(dag.edges[n]) = 2 =>
                FirstAt(dag.edges[n][1]) < FirstAt(dag.edges[n][2])

\* C26 (as stated): the Dag that Dag::empty or a successful Dag::new
\* followed by successful with_node calls gives has unique ids, edges to
\* existing nodes only, no cycle, and as root set the nodes without an
\* incoming edge.
C26_Original == dag.kind = "Ok" => DagInvariants(dag)

\* C25 (amended): each traversal visits the edges of a node in an order
\* fixed by child_ids, top_down_from in the reverse of the declaration
\* order. For every node n with child_ids [c1, c2]: top_down_from yields
\* c2 right after n and c1 later; bottom_up yields c2 right before n and
\* c1 earlier.
C25_TieBreak ==
    dag.kind = "Ok" =>
        \A p \in 1..Len(yielded) :
            LET n == yielded[p]
                c1 == dag.edges[n][1]
                c2 == dag.edges[n][2]
            IN  Len(dag.edges[n]) = 2 =>
                  /\ iter.kind = "top_down" =>
                        /\ p < Len(yielded) => yielded[p + 1] = c2
                        /\ iter.done =>
                              \E q \in (p + 2)..Len(yielded) : yielded[q] = c1
                  /\ iter.kind = "bottom_up" =>
                        /\ p > 2
                        /\ yielded[p - 1] = c2
                        /\ YieldedBefore(c1, p - 1)

\* C25 witness: a finished top_down_from that started at a node with two
\* children, over a Dag built by Dag::new.
C25_Witness ==
    /\ TopDownOverNew
    /\ iter.done
    /\ Len(dag.edges[dag.id_to_idx[iter.from]]) = 2
    /\ Len(yielded) = 3

\* What cached_result(k) is to return by the set_result calls that have
\* returned Ok for k.
Expected(k) ==
    IF set_done[k] = "none" THEN <<"None">> ELSE <<"Some", set_done[k]>>

C28_Original ==
    \A k \in DbKeys :
        CachedResult(disk, k)[1] = "Some" =>
            disk[k].stdout # "absent" /\ disk[k].stderr # "absent"

\* The three write operations of a sink, by their file.
SinkOps == {"stdout", "stderr", "result"}

\* C29: on one sink each write operation is performed at most once. A
\* call panics exactly if the same operation was called on the sink
\* before, whatever the other two flags are; the panic changes no file;
\* a call sets its own flag and no other, and a set flag stays set; a
\* file changes only in the first call of its operation on some sink.
C29_AtMostOnce ==
    [][/\ \A k \in DbKeys : \A f \in SinkOps :
             disk'[k][f] # disk[k][f] =>
                \E s \in Sinks :
                    /\ sink[s].state = "live"
                    /\ sink[s].key = k
                    /\ ~sink[s][FlagOf(f)]
                    /\ sink'[s][FlagOf(f)]
       /\ \A s \in Sinks : \A f \in SinkOps :
          /\ (sink[s].state # "none" /\ sink[s][FlagOf(f)]) =>
                sink'[s][FlagOf(f)]
          /\ (sink'[s] # sink[s] /\ db_call'.op = f /\ db_call'.sink = s) =>
                /\ db_call'.out = "panic" <=> sink[s][FlagOf(f)]
                /\ db_call'.out = "panic" => disk' = disk
                /\ sink'[s][FlagOf(f)]
                /\ \A g \in SinkOps \ {f} :
                      sink'[s][FlagOf(g)] = sink[s][FlagOf(g)]]_vars

\* C29 witness: a second set_result on a sink has panicked, its stdout()
\* and stderr() not yet called, with the result of the first in place.
C29_Witness ==
    /\ db_call.op = "result"
    /\ db_call.out = "panic"
    /\ ~sink[db_call.sink].stdout_opened
    /\ ~sink[db_call.sink].stderr_opened
    /\ disk[db_call.key].result = ToJson("pass")

\* C30: create_output changes nothing on the filesystem and no answer of
\* cached_result; the directory of a key comes into existence only in a
\* stdout, stderr or set_result call, one that does not panic, on a sink
\* for that key.
C30_CreateOutputFrame ==
    [][/\ (db_call'.op = "create_output" /\ sink' # sink) =>
             /\ disk' = disk
             /\ \A k \in DbKeys : CachedResult(disk', k) = CachedResult(disk, k)
       /\ \A k \in DbKeys :
             (~disk[k].dir /\ disk'[k].dir) =>
                /\ db_call'.op \in SinkOps
                /\ db_call'.key = k
                /\ db_call'.out \in {"ok", "err_file"}
                /\ sink[db_call'.sink].state = "live"
                /\ sink[db_call'.sink].key = k]_vars

\* C30 witness: create_output has just returned a second sink for a key
\* that has no directory yet, although stdout() was called on the first
\* sink for it (and failed).
C30_Witness ==
    /\ db_call.op = "create_output"
    /\ ~disk[db_call.key].dir
    /\ \E s \in Sinks \ {db_call.sink} :
          /\ sink[s].state = "live"
          /\ sink[s].key = db_call.key
          /\ sink[s].stdout_opened

\* C36: dropping a lease always returns its tokens to the pool and ends
\* without a panic, also when the lease holds a worktree token and
\* try_remove_worktrees ran in between: every step that ends a lease
\* leaves the task idle and every token of the lease in the pool's entry
\* for its key.
C36_Original ==
    [][\A t \in Tasks :
          (pc[t] = "holding" /\ pc'[t] # "holding") =>
              /\ pc'[t] = "idle"
              /\ \A k \in DOMAIN lease[t] :
                    /\ k \in DOMAIN resources'
                    /\ \A i \in 1..Len(lease[t][k]) :
                          CountIn(resources'[k], lease[t][k][i]) = 1]_vars

\* C37: for any wants, get either returns a lease holding exactly the
\* tokens it removed from the pool or fails without removing any: a get
\* that panics leaves the availability map as it was, and a get that
\* returns moves tokens from the map to the lease, one for one.
C37_Original ==
    [][\A t \in Tasks :
          (pc[t] \in {"idle", "woken"} /\ pc'[t] \in {"holding", "panicked"})
              => /\ pc'[t] = "panicked" => resources' = resources
                 /\ pc'[t] = "holding" =>
                       \A x \in AllTokens :
                           CountInMap(resources, DOMAIN resources, x)
                               = CountInMap(resources', DOMAIN resources', x)
                                   + CountInMap(lease'[t], DOMAIN lease'[t], x)]_vars

\* C38: when set_revisions returns an error part-way through its enqueue
\* loop, job_cts holds entries only for jobs that were sent: the token of
\* every entry a step of the loop adds is in the channel after the step,
\* the step that returns the error included.
C38_Original ==
    [][(mgr.pc = "running" /\ mgr'.ret # "panic") =>
          \A r \in DOMAIN job_cts' \ DOMAIN job_cts :
              job_cts'[r] \in {chan'[i].ct : i \in 1..Len(chan')}]_vars

\* C35: over any sequence of set_revisions calls, calls whose list repeats
\* a revision included, at most one job per revision is in flight: a
\* revision has at most one job in the channel or on a worker, that job
\* carries the token job_cts has for the revision, so it is on one worker
\* only, and no two workers run subprocesses of the same revision.
C35_OneJobPerRev ==
    /\ \A r \in Revs :
          Cardinality({i \in 1..Len(chan) : chan[i].rev = r})
              + Cardinality({w \in Workers : wjob[w].rev = r}) <= 1
    /\ \A i \in 1..Len(chan) : chan[i].ct = job_cts[chan[i].rev]
    /\ \A w \in Workers :
          wjob[w] # NoJob => wjob[w].ct = job_cts[wjob[w].rev]
    /\ \A w, v \in Workers :
          (w # v /\ child[w] \in Running /\ child[v] \in Running)
              => wjob[w].rev # wjob[v].rev

\* C35 witness: set_revisions is called with a revision whose subprocess
\* is running on a worker while the job of the other revision waits in
\* the channel.
C35_Witness ==
    /\ mgr.pc = "running"
    /\ \E w \in Workers :
          /\ child[w] \in Running
          /\ wjob[w].rev \in mgr.revs
          /\ wjob[w].ct \in mgr.pre_inflight
          /\ \E i \in 1..Len(chan) : chan[i].rev # wjob[w].rev

\* C40: a cached_result(k) call that runs while set_result(x) for the same
\* k is between creating result.json and having written it returns None
\* or Some(x), never an error.
C40_Original ==
    \A s \in Sinks :
        (/\ sink[s].state = "writing"
         /\ db_call.op = "cached_result"
         /\ db_call.key = sink[s].key)
            => db_call.out \in {<<"None">>, <<"Some", FromJson(sink[s].pending)>>}

\* Dag::new accepts the declarations of the Config.
GraphAccepted == New([i \in DOMAIN config.tests |-> ConfNode(config.tests[i])]).kind = "Ok"

\* C32: for every declaration list that Dag::new accepts, parse_tests
\* never panics at the lookup of a dependency, and the resolved Dag it
\* produces holds exactly one TestSpec per declared test, with unique
\* names and with the dependency edges of the declarations.
C32_Original ==
    (parsed.kind # "none" /\ GraphAccepted) =>
        /\ parsed.kind # "panic"
        /\ parsed.kind = "Ok" =>
              /\ Len(parsed.tests.nodes) = Len(config.tests)
              /\ \A i, j \in 1..Len(parsed.tests.nodes) :
                    parsed.tests.nodes[i].id = parsed.tests.nodes[j].id => i = j
              /\ \A i \in 1..Len(config.tests) :
                    \E j \in 1..Len(parsed.tests.nodes) :
                        /\ parsed.tests.nodes[j].id = config.tests[i].name
                        /\ parsed.tests.nodes[j].children = config.tests[i].depends_on

\* The Config c with another command for its i-th test, and with the two
\* entries of the i-th test's depends_on exchanged.
WithCommand(c, i, cmd) == [c EXCEPT !.tests[i].command = cmd]
WithSwapped(c, i) ==
    [c EXCEPT !.tests[i].depends_on = <<@[2], @[1]>>]

\* config_hash of the resolved test of a name.
HashOf(p, name) == Node(p.tests, name).test.config_hash

\* The indices of the declarations the i-th test of c depends on,
\* directly or not, i included.
DependenciesOf(c, i) ==
    ReachFrom(New([k \in DOMAIN c.tests |-> ConfNode(c.tests[k])]).edges, {i})

\* C31: with a hash that has no collisions, the config_hash of a resolved
\* test is determined by the test's declared fields and the config_hash of
\* each dependency in depends_on order: it is what the hasher is fed from
\* the declaration and the resolved dependencies; another command for a
\* test x changes the hash of exactly the tests that depend on x, directly
\* or not (x included); and exchanging the two entries of a test's
\* depends_on changes that test's hash.
C31_HashDetermined ==
    parsed.kind = "Ok" =>
        /\ \A n \in 1..Len(parsed.tests.nodes) :
              LET node == parsed.tests.nodes[n]
                  decl == config.tests[CHOOSE i \in DOMAIN config.tests :
                                          config.tests[i].name = node.id]
              IN  node.test.config_hash =
                      <<decl, [k \in 1..Len(decl.depends_on) |->
                                  HashOf(parsed, decl.depends_on[k])]>>
        /\ \A x, t \in DOMAIN config.tests :
              \A roots \in RootOrders(config) :
                  LET other == From(WithCommand(config, x, "c3"), roots)
                  IN  /\ other.kind = "Ok"
                      /\ (HashOf(other, TestNames[t]) # HashOf(parsed, TestNames[t]))
                            <=> x \in DependenciesOf(config, t)
        /\ \A t \in DOMAIN config.tests :
              Len(config.tests[t].depends_on) = 2 =>
                  \A roots \in RootOrders(WithSwapped(config, t)) :
                      LET other == From(WithSwapped(config, t), roots)
                      IN  /\ other.kind = "Ok"
                          /\ HashOf(other, TestNames[t]) # HashOf(parsed, TestNames[t])

\* C31 witness: a Config is resolved in which a test depends on a second
\* one only through a third.
C31_Witness ==
    /\ parsed.kind = "Ok"
    /\ \E t, m, x \in DOMAIN config.tests :
          /\ config.tests[t].depends_on = <<TestNames[m]>>
          /\ config.tests[m].depends_on = <<TestNames[x]>>
          /\ config.tests[x].depends_on = <<>>

\* The resource names a declaration lists, and the names the Config declares.
Listed(t) == {t.resources[k].name : k \in 1..Len(t.resources)}
Declared(c) == {c.resources[k].name : k \in 1..Len(c.resources)}

\* C33: ParsedConfig::from returns an error, with no pools and no Dag,
\* when some test lists a resource name twice or lists a name the Config
\* does not declare; otherwise, when the dependency graph is valid, it
\* succeeds.
C33_ResourceErrors ==
    parsed.kind # "none" =>
        LET bad == \E i \in DOMAIN config.tests :
                      \/ Cardinality(Listed(config.tests[i]))
                            < Len(config.tests[i].resources)
                      \/ ~(Listed(config.tests[i]) \subseteq Declared(config))
        IN  /\ bad => /\ parsed.kind = "Err"
                      /\ DOMAIN parsed \cap {"resource_pools", "tests"} = {}
            /\ (~bad /\ GraphAccepted) => parsed.kind = "Ok"

\* C33 witness: with a valid dependency graph and declared resources, a
\* test that lists an undeclared name has made from return the error of
\* the reference check.
C33_Witness ==
    /\ GraphAccepted
    /\ config.resources # <<>>
    /\ parsed.kind = "Err"
    /\ parsed.why = "undefined resource"

\* C34: needs_resources of a resolved test contains Worktree -> 1 exactly
\* if the test requires a worktree, one UserToken entry per resource the
\* test lists, and every count is positive.
C34_Original ==
    parsed.kind = "Ok" =>
        \A n \in 1..Len(parsed.tests.nodes) :
            LET needs == parsed.tests.nodes[n].test.needs_resources
                decl == config.tests[CHOOSE i \in DOMAIN config.tests :
                            config.tests[i].name = parsed.tests.nodes[n].id]
            IN  /\ "worktree" \in DOMAIN needs <=> decl.requires_worktree
                /\ DOMAIN needs \ {"worktree"} = Listed(decl)
                /\ \A key \in DOMAIN needs : needs[key] > 0

\* C39: every Config that ParsedConfig::from accepts is runnable: a
\* resolved test's get(needs_resources) on the primed pools, with every
\* token available, returns.
C39_Original == got.kind # "none" => got.kind = "returned"

====
